---- MODULE Spec2Model ----
(***************************************************************************)
(* Model of the OKPD2 classifier's concurrent processing engine: the       *)
(* target store's documents, the atomic claim of stage 1                   *)
(* (TargetMongoStore.get_pending_products_atomic), the stage-1 worker loop *)
(* and its retry/bisection logic (StageOneClassifier), the stage-2 claim   *)
(* and retry logic (StageTwoClassifier), the operator endpoints that      *)
(* reset documents, the migration from the source database                 *)
(* (ProductMigrator, MigrationWorker) and the MetricsCollector.            *)
(*                                                                         *)
(* A document field that does not exist is the string "absent" (the empty *)
(* sequence for a list or a timestamp field; a timestamp that is set is    *)
(* the one-element sequence <<t>>).  One                                   *)
(* action is the code between two suspension points (await) of a           *)
(* coroutine; every store command (find_one_and_update, bulk_write,        *)
(* update_many) is one atomic step.                                        *)
(***************************************************************************)
EXTENDS Integers, Sequences, FiniteSets, TLC

VARIABLES
    products,      \* target collection: _id -> document
    worker,        \* stage-1 workers: locals of run_continuous_classification
    worker2,       \* stage-2 workers: locals of run_continuous_classification
    ended,         \* per worker: the process_batch invocations its last step ended
    now,           \* logical clock read by datetime.utcnow()
    requests,      \* operator requests served so far
    batch_size,    \* StageOneClassifier.batch_size (the configured ceiling)
    max_retries,   \* StageOneClassifier.max_retries / StageTwoClassifier.max_retries
    source,        \* source database: collection name -> _ids in natural order
    migration_jobs,          \* target collection migration_jobs, in insertion order
    runs,          \* the tasks running _run_migration_all_collections
    migration_worker,        \* MigrationWorker processes
    redis_lock,    \* job ids whose key migration_lock:<job_id> exists in Redis
    migration_batch_size,    \* ProductMigrator.batch_size
    faults,        \* store errors raised so far
    classification_metrics,  \* MetricsCollector.classification_metrics
    migration_metrics,       \* MetricsCollector.migration_metrics
    worker_stats,  \* MetricsCollector.worker_stats
    lock,          \* MetricsCollector._lock: the call that holds it, or "free"
    calls,         \* the calls of MetricsCollector methods in flight
    recorded       \* every sample a record_classification call has appended

migration_vars ==
    <<source, migration_jobs, runs, migration_worker, redis_lock, migration_batch_size, faults>>
metrics_vars ==
    <<classification_metrics, migration_metrics, worker_stats, lock, calls, recorded>>

vars == <<products, worker, worker2, ended, now, requests, batch_size, max_retries,
          migration_vars, metrics_vars>>

(***************************************************************************)
(* Bounds of the model.                                                    *)
(***************************************************************************)
NumProductsBatch == 12    \* documents in the pool of SpecBatch
NumProductsClaim == 3     \* documents in the pool of SpecClaim
NumProducts == 2          \* documents in the pool of Spec
MaxTimeouts == 4          \* cap on consecutive_timeouts
MaxRetries == 4           \* largest MAX_RETRIES of SpecRetry
MaxRequests == 2          \* operator requests (reset-failed, cleanup-stuck) served

\* worker ids (--worker-id, default worker_1 and stage2_worker_1)
Workers == {"worker_1", "worker_2"}
Stage2Workers == {"stage2_worker_1"}
AllWorkers == Workers \cup Stage2Workers

Range(seq) == { seq[i] : i \in 1..Len(seq) }

Min(a, b) == IF a < b THEN a ELSE b
Max(a, b) == IF a > b THEN a ELSE b

RECURSIVE Pow2(_)
Pow2(n) == IF n <= 0 THEN 1 ELSE 2 * Pow2(n - 1)

(***************************************************************************)
(* Documents.                                                              *)
(***************************************************************************)
\* ProductStatus, models/domain.py
PENDING == "pending"
PROCESSING == "processing"
CLASSIFIED == "classified"
NONE_CLASSIFIED == "none_classified"
FAILED == "failed"

\* The document insert_products_batch writes: title (a sequence of words),
\* source ids and status_stage1 = pending; every classification field is
\* absent.
NewDocument ==
    [ title |-> <<"Widget", "A">>,
      source_collection |-> "products",
      source_id |-> 0,
      status_stage1 |-> PENDING,
      okpd_groups |-> <<>>,
      status_stage2 |-> "absent",
      okpd2_code |-> "absent",
      worker_id |-> "absent",
      processing_started_at |-> <<>>,
      status_stg1 |-> "absent",
      okpd_group |-> <<>>,
      status_stg2 |-> "absent",
      stage2_worker_id |-> "absent",
      stage2_started_at |-> <<>> ]

\* A document of the schema ProductStageTwo declares: the stage-1 outcome
\* is in status_stg1 and okpd_group, status_stg2 defaults to pending.
StageTwoDocument(groups) ==
    [ NewDocument EXCEPT !.status_stage1 = "absent",
                         !.status_stg1 = CLASSIFIED,
                         !.okpd_group = groups,
                         !.status_stg2 = PENDING ]

\* The coarse codes of the model and their first two characters
\* ($substr 0, 2; the regex ^XX\. of the stage-2 filter).
Codes == {"10.71.1", "26.20.1"}
OkpdClass(code) == IF code = "10.71.1" THEN "10" ELSE "26"

\* Faulty variant: a status write also clears the claim timestamp.
ApplyUpdateClearsClaim(doc, data) ==
    [ doc EXCEPT
        !.status_stage1 = IF "status_stage1" \in DOMAIN data THEN data.status_stage1 ELSE @,
        !.okpd_groups = IF "okpd_group" \in DOMAIN data THEN data.okpd_group ELSE @,
        !.status_stage2 = IF "status_stage2" \in DOMAIN data THEN data.status_stage2 ELSE @,
        !.okpd2_code = IF "okpd2_code" \in DOMAIN data THEN data.okpd2_code ELSE @,
        !.worker_id = IF "worker_id" \in DOMAIN data THEN data.worker_id ELSE @,
        !.processing_started_at = IF "status_stage1" \in DOMAIN data THEN <<>> ELSE @ ]

\* The $set of one UpdateOne of bulk_update_products: only the keys the
\* method knows are copied from data; okpd_group is renamed to okpd_groups.
ApplyUpdate(doc, data) ==
    [ doc EXCEPT
        !.status_stage1 = IF "status_stage1" \in DOMAIN data THEN data.status_stage1 ELSE @,
        !.okpd_groups = IF "okpd_group" \in DOMAIN data THEN data.okpd_group ELSE @,
        !.status_stage2 = IF "status_stage2" \in DOMAIN data THEN data.status_stage2 ELSE @,
        !.okpd2_code = IF "okpd2_code" \in DOMAIN data THEN data.okpd2_code ELSE @,
        !.worker_id = IF "worker_id" \in DOMAIN data THEN data.worker_id ELSE @ ]

\* bulk_update_products: one UpdateOne per update, filtered by _id alone.
BulkUpdateProducts(docs, updates) ==
    [ id \in DOMAIN docs |->
        IF \E i \in 1..Len(updates) : updates[i]._id = id
        THEN ApplyUpdate(docs[id],
                 updates[CHOOSE i \in 1..Len(updates) : updates[i]._id = id].data)
        ELSE docs[id] ]

\* Faulty variant: the filter also matches failed documents.
PendingIdsOrFailed ==
    { id \in DOMAIN products : products[id].status_stage1 \in {PENDING, FAILED} }

\* The documents the filter of get_pending_products_atomic matches.
PendingIds == { id \in DOMAIN products : products[id].status_stage1 = PENDING }

\* The document find_one_and_update (no sort) returns: the first match in
\* the collection's natural order.
FirstPending == CHOOSE id \in PendingIds : \A other \in PendingIds : id <= other

\* Faulty variant: the update leaves the status pending.
ClaimDocumentKeepsPending(doc, w) ==
    [ doc EXCEPT !.worker_id = w, !.processing_started_at = <<now>> ]

\* The update of get_pending_products_atomic's find_one_and_update.
ClaimDocument(doc, w) ==
    [ doc EXCEPT !.status_stage1 = PROCESSING,
                 !.worker_id = w,
                 !.processing_started_at = <<now>> ]

(***************************************************************************)
(* process_batch of stage 1: frames of the (recursive) invocations.        *)
(***************************************************************************)
NoRet == [ kind |-> "pending", classified |-> 0, none_classified |-> 0, err |-> "-" ]
RetDict(c, n) == [ kind |-> "dict", classified |-> c, none_classified |-> n, err |-> "-" ]
RetNone == [ kind |-> "none", classified |-> 0, none_classified |-> 0, err |-> "-" ]
RetRaise(e) == [ kind |-> "raise", classified |-> 0, none_classified |-> 0, err |-> e ]

\* A fresh invocation of process_batch(batch): retry_count = 0.
\* role: "top" (called by the worker loop), "first"/"second" (a bisected half).
\* split: the invocation has entered the split branch.  calls, errors and
\* waits record the external calls made, the kinds of the failed ones and
\* the sleeps of the retry branches; response is the text of the answered
\* call, where the model keeps it.
NewFrame(batch, role) ==
    [ products |-> batch, retry_count |-> 0, role |-> role, first |-> NoRet,
      split |-> FALSE, calls |-> 0, errors |-> <<>>, waits |-> <<>>,
      response |-> <<>> ]

EndRecord(frame, ret) ==
    [ products |-> frame.products, role |-> frame.role, outcome |-> ret.kind,
      err |-> ret.err, split |-> frame.split, calls |-> frame.calls, errors |-> frame.errors,
      waits |-> frame.waits, response |-> frame.response,
      classified |-> ret.classified, none_classified |-> ret.none_classified ]

\* products[mid:] of the timeout branch.
SecondHalf(batch) == SubSeq(batch, (Len(batch) \div 2) + 1, Len(batch))
\* products[:mid]
FirstHalf(batch) == SubSeq(batch, 1, Len(batch) \div 2)

\* An invocation with the given role has ended with ret; callers are the
\* frames of the invocations waiting in the split branch (lines 141-159).
\* An exception leaves every caller (it is raised inside their except
\* block); a returned first half starts the second half; a returned second
\* half lets the caller combine the two results, where a half that returned
\* None makes first_half.get / second_half.get raise.
RECURSIVE Return(_, _, _, _)
Return(callers, role, ret, ends) ==
    IF role = "top" THEN [ stack |-> <<>>, ret |-> ret, ended |-> ends ]
    ELSE LET caller == callers[Len(callers)]
             below == SubSeq(callers, 1, Len(callers) - 1)
         IN IF ret.kind = "raise"
            THEN Return(below, caller.role, ret, Append(ends, EndRecord(caller, ret)))
            ELSE IF role = "first"
            THEN [ stack |-> Append(Append(below, [caller EXCEPT !.first = ret]),
                                    NewFrame(SecondHalf(caller.products), "second")),
                   ret |-> NoRet, ended |-> ends ]
            ELSE IF caller.first.kind = "none" \/ ret.kind = "none"
            THEN Return(below, caller.role, RetRaise("other"),
                        Append(ends, EndRecord(caller, RetRaise("other"))))
            ELSE LET sum == RetDict(caller.first.classified + ret.classified,
                                    caller.first.none_classified + ret.none_classified)
                 IN Return(below, caller.role, sum, Append(ends, EndRecord(caller, sum)))

(***************************************************************************)
(* The worker loop run_continuous_classification.                          *)
(***************************************************************************)
\* Top of the while loop: batch_size = 1 if first_batch else current_batch_size.
NextIteration(me) ==
    [ me EXCEPT !.pc = "claim",
                !.limit = IF me.first_batch THEN 1 ELSE me.current_batch_size,
                !.remaining = IF me.first_batch THEN 1 ELSE me.current_batch_size,
                !.batch = <<>>,
                !.stack = <<>> ]

\* Faulty variant: every exception shrinks the batch size.
AfterProcessBatchAnyError(me, ret) ==
    IF ret.kind = "dict"
    THEN [ me EXCEPT !.consecutive_timeouts = 0,
                     !.current_batch_size =
                         IF @ < batch_size THEN Min(@ * 2, batch_size) ELSE @ ]
    ELSE IF ret.kind = "raise"
    THEN [ me EXCEPT !.consecutive_timeouts = @ + 1,
                     !.current_batch_size = Max(10, @ \div 2) ]
    ELSE me

\* The loop body after process_batch has returned ret or raised.
AfterProcessBatch(me, ret) ==
    IF ret.kind = "dict"
    THEN [ me EXCEPT !.consecutive_timeouts = 0,
                     !.current_batch_size =
                         IF @ < batch_size THEN Min(@ * 2, batch_size) ELSE @ ]
    ELSE IF ret.kind = "raise" /\ ret.err = "timeout"
    THEN [ me EXCEPT !.consecutive_timeouts = @ + 1,
                     !.current_batch_size =
                         IF me.consecutive_timeouts + 1 >= 2 THEN Max(10, @ \div 2) ELSE @ ]
    ELSE me   \* result is None (TypeError on result['classified']) or another error

\* Faulty variant: an empty claim ends the loop.
AfterClaimStopsWhenEmpty(me, batch) ==
    IF batch = <<>>
    THEN [ me EXCEPT !.first_batch = FALSE, !.pc = "off", !.batch = <<>>, !.stack = <<>> ]
    ELSE [ me EXCEPT !.first_batch = FALSE,
                     !.pc = "classify",
                     !.batch = batch,
                     !.remaining = 0,
                     !.stack = <<NewFrame(batch, "top")>> ]

\* get_pending_products_atomic has returned batch.
AfterClaim(me, batch) ==
    IF batch = <<>>
    THEN NextIteration([ me EXCEPT !.first_batch = FALSE,
                                   !.consecutive_timeouts = 0,
                                   !.current_batch_size = batch_size ])
    ELSE [ me EXCEPT !.first_batch = FALSE,
                     !.pc = "classify",
                     !.batch = batch,
                     !.remaining = 0,
                     !.stack = <<NewFrame(batch, "top")>> ]

\* One iteration of the for loop of get_pending_products_atomic: one
\* find_one_and_update; the call returns when it finds no document or the
\* limit is reached.
GetPendingProductsAtomic(w) ==
    /\ worker[w].pc = "claim"
    /\ LET me == worker[w]
       IN IF PendingIds = {}
          THEN /\ worker' = [worker EXCEPT ![w] = AfterClaim(me, me.batch)]
               /\ UNCHANGED products
          ELSE LET id == FirstPending
                   batch == Append(me.batch, id)
                 IN /\ products' = [products EXCEPT ![id] = ClaimDocument(@, w)]
                    /\ worker' = [worker EXCEPT ![w] =
                           IF me.remaining = 1
                           THEN AfterClaim(me, batch)
                           ELSE [ me EXCEPT !.batch = batch, !.remaining = @ - 1 ]]
    /\ ended' = [ended EXCEPT ![w] = <<>>]
    /\ UNCHANGED <<worker2, now, requests, batch_size, max_retries,
                 migration_vars, metrics_vars>>

(***************************************************************************)
(* process_batch of stage 1: one action per outcome of the awaited         *)
(* ai_client.classify_batch call of the running invocation.                *)
(***************************************************************************)
\* The running invocation and the invocations waiting for it.
Top(me) == me.stack[Len(me.stack)]
Callers(me) == SubSeq(me.stack, 1, Len(me.stack) - 1)

\* What parse_classification_response can make of a response for the batch:
\* the first k products get a list of groups, the others are not in the
\* result (k = 0: nothing recognised, k = Len: every product recognised).
ClassifiedCounts(batch) == {0, 1, Len(batch)}
GroupChoices == { <<"10.71.1">> }

\* _update_products_with_results: classified with okpd_group for a product
\* in results, none_classified for the others.
ResultUpdates(batch, k, groups, w) ==
    [ i \in 1..Len(batch) |->
        IF i <= k
        THEN [ _id |-> batch[i],
               data |-> [ status_stage1 |-> CLASSIFIED, okpd_group |-> groups, worker_id |-> w ] ]
        ELSE [ _id |-> batch[i],
               data |-> [ status_stage1 |-> NONE_CLASSIFIED, worker_id |-> w ] ] ]

\* _mark_products_failed
FailedUpdates(batch, w) ==
    [ i \in 1..Len(batch) |->
        [ _id |-> batch[i], data |-> [ status_stage1 |-> FAILED, worker_id |-> w ] ] ]

\* Faulty variant: the loop runs up to the allowance of the overload branch.
LoopConditionOverloadAllowance(retry_count) == retry_count < max_retries + 2

\* while retry_count < self.max_retries
LoopCondition(retry_count) == retry_count < max_retries

\* The retry allowances of the except branches (lines 126, 167, 180).
TimeoutRetryAllowed(retry_count) == retry_count < max_retries
RateLimitRetryAllowed(retry_count) == retry_count < max_retries
OverloadRetryAllowed(retry_count) == retry_count < max_retries + 2

\* Faulty variant: the exponent counts down.
RateLimitWaitDecreasing(retry_count) == 30 * Pow2(max_retries - retry_count)

\* The sleeps of the except branches (lines 129, 168, 181).
TimeoutWait(retry_count) == 10 * retry_count
RateLimitWait(retry_count) == 30 * Pow2(retry_count - 1)
OverloadWait(retry_count) == 60 * retry_count

\* if retry_count == self.max_retries - 1 and len(products) > 10
SplitCondition(retry_count, batch) == retry_count = max_retries - 1 /\ Len(batch) > 10

\* The invocation f of worker w ends with ret: its callers and the worker
\* loop go on up to their next await.
Finish(w, f, ret) ==
    LET me == worker[w]
        r == Return(Callers(me), f.role, ret, <<EndRecord(f, ret)>>)
    IN /\ worker' = [worker EXCEPT ![w] =
              IF r.ret.kind = "pending"
              THEN [ me EXCEPT !.stack = r.stack ]
              ELSE NextIteration(AfterProcessBatch(me, r.ret))]
       /\ ended' = [ended EXCEPT ![w] = r.ended]

\* The invocation f of worker w goes round its while loop again.
Continue(w, f) ==
    /\ worker' = [worker EXCEPT ![w].stack = Append(Callers(worker[w]), f)]
    /\ ended' = [ended EXCEPT ![w] = <<>>]

\* The call returns a response: parse, write the results, return the dict.
ClassifyBatchOk(w) ==
    /\ worker[w].pc = "classify"
    /\ LET f == Top(worker[w])
       IN \E k \in ClassifiedCounts(f.products), groups \in GroupChoices :
            /\ products' = BulkUpdateProducts(products, ResultUpdates(f.products, k, groups, w))
            /\ Finish(w, [f EXCEPT !.calls = @ + 1], RetDict(k, Len(f.products) - k))
    /\ UNCHANGED <<worker2, now, requests, batch_size, max_retries,
                 migration_vars, metrics_vars>>

\* The call raises a timeout: lines 123-161.
ClassifyBatchTimeout(w) ==
    /\ worker[w].pc = "classify"
    /\ worker[w].consecutive_timeouts < MaxTimeouts
    /\ LET f0 == Top(worker[w])
           rc == f0.retry_count + 1
           f == [f0 EXCEPT !.retry_count = rc, !.calls = @ + 1,
                           !.errors = Append(@, "timeout")]
           fw == [f EXCEPT !.waits = Append(@, TimeoutWait(rc))]
       IN IF TimeoutRetryAllowed(rc)
          THEN IF SplitCondition(rc, f.products)
               THEN /\ worker' = [worker EXCEPT ![w].stack =
                           Append(Append(Callers(worker[w]), [fw EXCEPT !.split = TRUE]),
                                  NewFrame(FirstHalf(f.products), "first"))]
                    /\ ended' = [ended EXCEPT ![w] = <<>>]
                    /\ UNCHANGED products
               ELSE IF LoopCondition(rc)
               THEN Continue(w, fw) /\ UNCHANGED products
               ELSE Finish(w, fw, RetNone) /\ UNCHANGED products
          ELSE /\ products' = BulkUpdateProducts(products, FailedUpdates(f.products, w))
               /\ Finish(w, f, RetRaise("timeout"))
    /\ UNCHANGED <<worker2, now, requests, batch_size, max_retries,
                 migration_vars, metrics_vars>>

\* The call raises a rate-limit error (429): lines 164-174.
ClassifyBatchRateLimit(w) ==
    /\ worker[w].pc = "classify"
    /\ LET f0 == Top(worker[w])
           rc == f0.retry_count + 1
           f == [f0 EXCEPT !.retry_count = rc, !.calls = @ + 1,
                           !.errors = Append(@, "429")]
           fw == [f EXCEPT !.waits = Append(@, RateLimitWait(rc))]
       IN IF RateLimitRetryAllowed(rc)
          THEN IF LoopCondition(rc)
               THEN Continue(w, fw) /\ UNCHANGED products
               ELSE Finish(w, fw, RetNone) /\ UNCHANGED products
          ELSE /\ products' = BulkUpdateProducts(products, FailedUpdates(f.products, w))
               /\ Finish(w, f, RetRaise("429"))
    /\ UNCHANGED <<worker2, now, requests, batch_size, max_retries,
                 migration_vars, metrics_vars>>

\* The call raises an overloaded error (529): lines 177-187.
ClassifyBatchOverloaded(w) ==
    /\ worker[w].pc = "classify"
    /\ LET f0 == Top(worker[w])
           rc == f0.retry_count + 1
           f == [f0 EXCEPT !.retry_count = rc, !.calls = @ + 1,
                           !.errors = Append(@, "529")]
           fw == [f EXCEPT !.waits = Append(@, OverloadWait(rc))]
       IN IF OverloadRetryAllowed(rc)
          THEN IF LoopCondition(rc)
               THEN Continue(w, fw) /\ UNCHANGED products
               ELSE Finish(w, fw, RetNone) /\ UNCHANGED products
          ELSE /\ products' = BulkUpdateProducts(products, FailedUpdates(f.products, w))
               /\ Finish(w, f, RetRaise("529"))
    /\ UNCHANGED <<worker2, now, requests, batch_size, max_retries,
                 migration_vars, metrics_vars>>

\* The call (or the processing of its response) raises any other error:
\* lines 189-193.
ClassifyBatchError(w) ==
    /\ worker[w].pc = "classify"
    /\ LET f0 == Top(worker[w])
           f == [f0 EXCEPT !.calls = @ + 1, !.errors = Append(@, "other")]
       IN /\ products' = BulkUpdateProducts(products, FailedUpdates(f.products, w))
          /\ Finish(w, f, RetRaise("other"))
    /\ UNCHANGED <<worker2, now, requests, batch_size, max_retries,
                 migration_vars, metrics_vars>>

(***************************************************************************)
(* Operator endpoints, api/endpoints/classification.py.                    *)
(***************************************************************************)
\* Faulty variant: the filter of the reset also matches processing
\* documents.
ResetFailedOrProcessingProducts ==
    /\ requests < MaxRequests
    /\ products' = [ id \in DOMAIN products |->
                       IF products[id].status_stage1 \in {FAILED, PROCESSING}
                       THEN [ products[id] EXCEPT !.status_stage1 = PENDING ]
                       ELSE products[id] ]
    /\ requests' = requests + 1
    /\ UNCHANGED <<worker, worker2, ended, now, batch_size, max_retries,
                 migration_vars, metrics_vars>>

\* POST /reset-failed: update_many status_stage1 failed -> pending.
ResetFailedProducts ==
    /\ requests < MaxRequests
    /\ products' = [ id \in DOMAIN products |->
                       IF products[id].status_stage1 = FAILED
                       THEN [ products[id] EXCEPT !.status_stage1 = PENDING ]
                       ELSE products[id] ]
    /\ requests' = requests + 1
    /\ UNCHANGED <<worker, worker2, ended, now, batch_size, max_retries,
                 migration_vars, metrics_vars>>

\* POST /cleanup-stuck: update_many status_stage1 processing -> pending.
CleanupStuckProducts ==
    /\ requests < MaxRequests
    /\ products' = [ id \in DOMAIN products |->
                       IF products[id].status_stage1 = PROCESSING
                       THEN [ products[id] EXCEPT !.status_stage1 = PENDING ]
                       ELSE products[id] ]
    /\ requests' = requests + 1
    /\ UNCHANGED <<worker, worker2, ended, now, batch_size, max_retries,
                 migration_vars, metrics_vars>>

(***************************************************************************)
(* Stage 2: StageTwoClassifier.                                            *)
(***************************************************************************)
\* StageTwoClassifier.batch_size as the stage-2 worker sets it.
Stage2BatchSize == Min(batch_size, 15)

\* Faulty variant: the stage-2 filter does not look at the stage-1 status.
Stage2CandidatesAnyStatus ==
    { id \in DOMAIN products : products[id].status_stg2 \in {"absent", PENDING} }

\* The $match of _select_class_to_process.
Stage2Candidates ==
    { id \in DOMAIN products :
        /\ products[id].status_stg1 = CLASSIFIED
        /\ products[id].status_stg2 \in {"absent", PENDING} }

\* The $unwind / $project / $group of _select_class_to_process: the number
\* of okpd_group entries of the candidates per two-character class.
RECURSIVE ClassCountIn(_, _)
ClassCountIn(cls, ids) ==
    IF ids = {} THEN 0
    ELSE LET id == CHOOSE x \in ids : TRUE
             groups == products[id].okpd_group
         IN Cardinality({ i \in 1..Len(groups) : OkpdClass(groups[i]) = cls })
              + ClassCountIn(cls, ids \ {id})
ClassCount(cls) == ClassCountIn(cls, Stage2Candidates)

\* The classes $sort count -1, $limit 1 can return.
ClassesToProcess ==
    { cls \in { OkpdClass(c) : c \in Codes } :
        /\ ClassCount(cls) > 0
        /\ \A other \in { OkpdClass(c) : c \in Codes } : ClassCount(other) <= ClassCount(cls) }

\* The documents the filter of get_pending_products_for_class matches.
PendingIdsForClass(cls) ==
    { id \in Stage2Candidates :
        \E i \in 1..Len(products[id].okpd_group) : OkpdClass(products[id].okpd_group[i]) = cls }

FirstPendingForClass(cls) ==
    CHOOSE id \in PendingIdsForClass(cls) : \A other \in PendingIdsForClass(cls) : id <= other

\* Faulty variant: the stage-2 claim records no owner.
ClaimDocumentStage2NoOwner(doc, w) ==
    [ doc EXCEPT !.status_stg2 = PROCESSING, !.stage2_started_at = <<now>> ]

\* The update of get_pending_products_for_class's find_one_and_update.
ClaimDocumentStage2(doc, w) ==
    [ doc EXCEPT !.status_stg2 = PROCESSING,
                 !.stage2_started_at = <<now>>,
                 !.stage2_worker_id = w ]

\* StageTwoClassifier._update_products_with_results
Stage2ResultUpdates(batch, k, code) ==
    [ i \in 1..Len(batch) |->
        IF i <= k
        THEN [ _id |-> batch[i],
               data |-> [ status_stg2 |-> CLASSIFIED, okpd2_code |-> code,
                          stage2_completed_at |-> <<now>> ] ]
        ELSE [ _id |-> batch[i],
               data |-> [ status_stg2 |-> NONE_CLASSIFIED, stage2_completed_at |-> <<now>> ] ] ]

\* StageTwoClassifier._mark_products_failed
Stage2FailedUpdates(batch) ==
    [ i \in 1..Len(batch) |->
        [ _id |-> batch[i],
          data |-> [ status_stg2 |-> FAILED, stage2_completed_at |-> <<now>> ] ] ]

\* The retry allowance and the sleep of the 429 branch (lines 121, 122).
Stage2RateLimitRetryAllowed(retry_count) == retry_count < max_retries
Stage2RateLimitWait(retry_count) == 30 * Pow2(retry_count - 1)
\* while retry_count < self.max_retries (line 60)
Stage2LoopCondition(retry_count) == retry_count < max_retries

\* The exact codes a stage-2 response can carry.
ExactCodes == { "10.71.1.200" }

\* Top of the while loop with okpd_class None: _select_class_to_process.
SelectClassToProcess(w) ==
    /\ worker2[w].pc = "select"
    /\ \E cls \in ClassesToProcess :
         worker2' = [worker2 EXCEPT ![w] =
             [ @ EXCEPT !.pc = "claim", !.current_class = cls,
                        !.remaining = Stage2BatchSize, !.batch = <<>> ]]
    /\ ended' = [ended EXCEPT ![w] = <<>>]
    /\ UNCHANGED <<products, worker, now, requests, batch_size, max_retries,
                 migration_vars, metrics_vars>>

\* get_pending_products_for_class has returned batch.
AfterClaimStage2(me, batch) ==
    IF batch = <<>>
    THEN [ me EXCEPT !.pc = "select", !.batch = <<>>, !.remaining = 0 ]
    ELSE [ me EXCEPT !.pc = "classify", !.batch = batch, !.remaining = 0,
                     !.frame = NewFrame(batch, "stage2") ]

\* One iteration of the for loop of get_pending_products_for_class.
GetPendingProductsForClass(w) ==
    /\ worker2[w].pc = "claim"
    /\ LET me == worker2[w]
       IN IF PendingIdsForClass(me.current_class) = {}
          THEN /\ worker2' = [worker2 EXCEPT ![w] = AfterClaimStage2(me, me.batch)]
               /\ UNCHANGED products
          ELSE LET id == FirstPendingForClass(me.current_class)
                   batch == Append(me.batch, id)
               IN /\ products' = [products EXCEPT ![id] = ClaimDocumentStage2(@, w)]
                  /\ worker2' = [worker2 EXCEPT ![w] =
                         IF me.remaining = 1
                         THEN AfterClaimStage2(me, batch)
                         ELSE [ me EXCEPT !.batch = batch, !.remaining = @ - 1 ]]
    /\ ended' = [ended EXCEPT ![w] = <<>>]
    /\ UNCHANGED <<worker, now, requests, batch_size, max_retries,
                 migration_vars, metrics_vars>>

\* Stage-2 process_batch ends with ret: the loop goes back to its top
\* (after the sleep of the normal path or of the except branch).
FinishStage2(w, f, ret) ==
    /\ worker2' = [worker2 EXCEPT ![w] =
           [ @ EXCEPT !.pc = "select", !.batch = <<>>, !.frame = NewFrame(<<>>, "stage2") ]]
    /\ ended' = [ended EXCEPT ![w] = <<EndRecord(f, ret)>>]

RetentionMinutes == 1440 \* _cleanup_old_metrics keeps 24 hours

\* The ClassificationMetrics of lines 95-102 for a batch of worker w with k
\* classified products.  The clock of the model does not advance during a
\* batch, so processing_time is 0.
Stage2Metric(w, batch, k) ==
    [ timestamp |-> now, worker_id |-> w, batch_size |-> Len(batch),
      processing_time |-> 0, success_count |-> k, failure_count |-> Len(batch) - k ]

\* await metrics_collector.record_classification(metric), core/metrics.py
\* lines 65-83, as one step of the calling classifier: the sample is
\* appended, the totals of the worker are updated, old samples are dropped.
RecordClassification(metric) ==
    /\ lock = "free"
    /\ classification_metrics' =
           SelectSeq(Append(classification_metrics, metric),
                     LAMBDA m : m.timestamp > now - RetentionMinutes)
    /\ migration_metrics' =
           SelectSeq(migration_metrics, LAMBDA m : m.timestamp > now - RetentionMinutes)
    /\ worker_stats' =
           [ x \in DOMAIN worker_stats \cup {metric.worker_id} |->
               IF x = metric.worker_id
               THEN LET stats == IF x \in DOMAIN worker_stats THEN worker_stats[x]
                                 ELSE [ total_processed |-> 0, total_classified |-> 0,
                                        total_failed |-> 0, avg_processing_time |-> 0,
                                        rate_limits_hit |-> 0, last_activity |-> <<>> ]
                    IN [ stats EXCEPT
                           !.total_processed = @ + metric.batch_size,
                           !.total_classified = @ + metric.success_count,
                           !.total_failed = @ + metric.failure_count,
                           !.last_activity = <<metric.timestamp>>,
                           !.avg_processing_time = (@ * 9 + metric.processing_time) \div 10 ]
               ELSE worker_stats[x] ]
    /\ recorded' = Append(recorded, metric)
    /\ UNCHANGED <<lock, calls>>

\* await metrics_collector.record_rate_limit(worker_id), core/metrics.py
\* lines 100-103, as one step of the calling classifier.
RecordRateLimitOf(worker_id) ==
    /\ lock = "free"
    /\ worker_stats' =
           [ x \in DOMAIN worker_stats \cup {worker_id} |->
               IF x = worker_id
               THEN LET stats == IF x \in DOMAIN worker_stats THEN worker_stats[x]
                                 ELSE [ total_processed |-> 0, total_classified |-> 0,
                                        total_failed |-> 0, avg_processing_time |-> 0,
                                        rate_limits_hit |-> 0, last_activity |-> <<>> ]
                    IN [ stats EXCEPT !.rate_limits_hit = @ + 1 ]
               ELSE worker_stats[x] ]
    /\ UNCHANGED <<classification_metrics, migration_metrics, lock, calls, recorded>>

\* The call returns a response: lines 76-111, the metric of the batch
\* included.
ClassifyStage2Ok(w) ==
    /\ worker2[w].pc = "classify"
    /\ LET f == worker2[w].frame
       IN \E k \in ClassifiedCounts(f.products), code \in ExactCodes :
            /\ products' = BulkUpdateProducts(products, Stage2ResultUpdates(f.products, k, code))
            /\ RecordClassification(Stage2Metric(w, f.products, k))
            /\ FinishStage2(w, [f EXCEPT !.calls = @ + 1], RetDict(k, Len(f.products) - k))
    /\ UNCHANGED <<worker, now, requests, batch_size, max_retries, migration_vars>>

\* The call raises a rate-limit error (429): lines 117-134; the rate limit
\* is counted before the retry counter advances.
ClassifyStage2RateLimit(w) ==
    /\ worker2[w].pc = "classify"
    /\ LET f0 == worker2[w].frame
           rc == f0.retry_count + 1
           f == [f0 EXCEPT !.retry_count = rc, !.calls = @ + 1,
                           !.errors = Append(@, "429")]
           fw == [f EXCEPT !.waits = Append(@, Stage2RateLimitWait(rc))]
       IN IF Stage2RateLimitRetryAllowed(rc)
          THEN IF Stage2LoopCondition(rc)
               THEN /\ worker2' = [worker2 EXCEPT ![w].frame = fw]
                    /\ ended' = [ended EXCEPT ![w] = <<>>]
                    /\ UNCHANGED products
               ELSE FinishStage2(w, fw, RetNone) /\ UNCHANGED products
          ELSE /\ products' = BulkUpdateProducts(products, Stage2FailedUpdates(f.products))
               /\ FinishStage2(w, f, RetRaise("429"))
    /\ RecordRateLimitOf(w)
    /\ UNCHANGED <<worker, now, requests, batch_size, max_retries, migration_vars>>

\* The call raises any other error, a timeout or an overload included:
\* lines 130-134.
ClassifyStage2Error(w) ==
    /\ worker2[w].pc = "classify"
    /\ \E kind \in {"timeout", "529", "other"} :
         LET f0 == worker2[w].frame
             f == [f0 EXCEPT !.calls = @ + 1, !.errors = Append(@, kind)]
         IN /\ products' = BulkUpdateProducts(products, Stage2FailedUpdates(f.products))
            /\ FinishStage2(w, f, RetRaise(kind))
    /\ UNCHANGED <<worker, now, requests, batch_size, max_retries,
                 migration_vars, metrics_vars>>

\* A stage-2 worker entering run_continuous_classification, and one that
\* is not running.
NewWorker2 ==
    [ pc |-> "select", current_class |-> "-", remaining |-> 0, batch |-> <<>>,
      frame |-> NewFrame(<<>>, "stage2") ]
NoWorker2 == [ NewWorker2 EXCEPT !.pc = "off" ]

(***************************************************************************)
(* The source database, the migration jobs and the metrics collector       *)
(* before anything has used them.                                          *)
(***************************************************************************)
\* The product collections of the source database, in the order
\* list_collection_names returns them.
Collections == <<"goods", "empty", "tools">>

\* worker processes started from workers/migration_worker.py
MigrationWorkers == {"migration_1", "migration_2"}

\* A MigrationWorker that has not been started.
NoMigrationWorker == [ pc |-> "off", job |-> 0 ]

\* No migration has been requested and no migration worker runs.
NoMigration ==
    /\ source = [ c \in Range(Collections) |-> <<>> ]
    /\ migration_jobs = <<>>
    /\ runs = <<>>
    /\ migration_worker = [ w \in MigrationWorkers |-> NoMigrationWorker ]
    /\ redis_lock = {}
    /\ migration_batch_size = 1
    /\ faults = 0

\* The callers of MetricsCollector methods.
Writers == {"writer_1", "writer_2"}
Readers == {"reader_1"}
MetricsCallers == Writers \cup Readers

\* A caller with no call in flight.
NoCall == [ op |-> "none", pc |-> "idle" ]

\* MetricsCollector.__init__: empty lists, no worker_stats key, a free lock.
NoMetrics ==
    /\ classification_metrics = <<>>
    /\ migration_metrics = <<>>
    /\ worker_stats = <<>>
    /\ lock = "free"
    /\ calls = [ c \in MetricsCallers |-> NoCall ]
    /\ recorded = <<>>

(***************************************************************************)
(* Spec: two stage-1 workers and the operator endpoints on a small pool.   *)
(***************************************************************************)
\* A worker entering run_continuous_classification (lines 269-271).
NewWorker ==
    NextIteration([ pc |-> "claim", first_batch |-> TRUE, consecutive_timeouts |-> 0,
                    current_batch_size |-> batch_size, limit |-> 0,
                    remaining |-> 0, batch |-> <<>>, stack |-> <<>> ])

\* A worker that is not running.
NoWorker ==
    [ pc |-> "off", first_batch |-> TRUE, consecutive_timeouts |-> 0,
      current_batch_size |-> batch_size, limit |-> 0, remaining |-> 0,
      batch |-> <<>>, stack |-> <<>> ]

\* The state after construction: n migrated documents, the workers of
\* running started with batch size size, MAX_RETRIES drawn from retries.
InitWith(n, running, sizes, retries) ==
    /\ products = [ id \in 1..n |-> [ NewDocument EXCEPT !.source_id = id ] ]
    /\ batch_size \in sizes
    /\ max_retries \in retries
    /\ worker = [ w \in Workers |-> IF w \in running THEN NewWorker ELSE NoWorker ]
    /\ worker2 = [ w \in Stage2Workers |-> NoWorker2 ]
    /\ ended = [ w \in AllWorkers |-> <<>> ]
    /\ now = 0
    /\ requests = 0
    /\ NoMigration
    /\ NoMetrics

Init == InitWith(NumProducts, Workers, {2}, {2})

Next ==
    \/ \E w \in Workers : GetPendingProductsAtomic(w)
    \/ \E w \in Workers : ClassifyBatchOk(w)
    \/ \E w \in Workers : ClassifyBatchTimeout(w)
    \/ \E w \in Workers : ClassifyBatchRateLimit(w)
    \/ \E w \in Workers : ClassifyBatchOverloaded(w)
    \/ \E w \in Workers : ClassifyBatchError(w)
    \/ ResetFailedProducts
    \/ CleanupStuckProducts

Spec == Init /\ [][Next]_vars

(***************************************************************************)
(* SpecClaim: two stage-1 workers on a pool no operator request touches.   *)
(***************************************************************************)
InitClaim == InitWith(NumProductsClaim, Workers, {2}, {2, 3})

NextClaim ==
    \/ \E w \in Workers : GetPendingProductsAtomic(w)
    \/ \E w \in Workers : ClassifyBatchOk(w)
    \/ \E w \in Workers : ClassifyBatchTimeout(w)
    \/ \E w \in Workers : ClassifyBatchRateLimit(w)
    \/ \E w \in Workers : ClassifyBatchOverloaded(w)
    \/ \E w \in Workers : ClassifyBatchError(w)

SpecClaim == InitClaim /\ [][NextClaim]_vars

\* C1: the batches that concurrent stage-1 claim calls hand to different
\* workers are pairwise disjoint (and no batch holds a document twice) when
\* no reset happens in between.
C1_ClaimsDisjoint ==
    /\ \A w1, w2 \in Workers :
         w1 # w2 => Range(worker[w1].batch) \cap Range(worker[w2].batch) = {}
    /\ \A w \in Workers :
         Cardinality(Range(worker[w].batch)) = Len(worker[w].batch)

\* Both workers hold a claimed batch at the same time.
C1_Witness ==
    \A w \in Workers : worker[w].pc = "classify" /\ worker[w].batch # <<>>

\* C3: a claim call with limit n by worker w never holds more than n
\* documents; each of its find_one_and_update steps changes at most one
\* document, which was pending before and is processing with owner w and a
\* claim timestamp after, and adds it to the batch; every other document is
\* left as it was; the call returns fewer than n documents only when a step
\* found no pending document.
C3_ClaimStep ==
    [][ \A w \in Workers :
          (worker[w].pc = "claim" /\ worker'[w] # worker[w]) =>
            LET me == worker[w]
                returned == worker'[w].pc = "classify" \/ worker'[w].batch = <<>>
                batch == IF worker'[w].batch = <<>> /\ products' = products
                         THEN me.batch ELSE worker'[w].batch
            IN /\ Len(batch) <= me.limit
               /\ \/ /\ products' = products
                     /\ batch = me.batch
                     /\ PendingIds = {}
                     /\ returned
                  \/ \E id \in DOMAIN products :
                       /\ products[id].status_stage1 = PENDING
                       /\ products'[id].status_stage1 = PROCESSING
                       /\ products'[id].worker_id = w
                       /\ products'[id].processing_started_at # <<>>
                       /\ batch = Append(me.batch, id)
                       /\ \A other \in DOMAIN products \ {id} :
                            products'[other] = products[other]
               /\ (returned /\ Len(batch) < me.limit) => PendingIds = {}
               /\ (~returned) => Len(batch) < me.limit
      ]_vars

\* A claim call has returned a partial batch: limit 2, one document.
C3_Witness ==
    \E w \in Workers :
        /\ worker[w].pc = "classify"
        /\ worker[w].limit = 2
        /\ Len(worker[w].batch) = 1
        /\ products[worker[w].batch[1]].status_stage1 = PROCESSING
        /\ products[worker[w].batch[1]].worker_id = w

\* The documents a worker holds: claimed by its running claim call or
\* passed to its running process_batch.
InFlight(w) == IF worker[w].pc \in {"claim", "classify"} THEN Range(worker[w].batch) ELSE {}

\* C2: in every reachable state of the whole system a document is in the
\* in-flight batch of at most one worker.
C2_OneHolder ==
    \A w1, w2 \in Workers : w1 # w2 => InFlight(w1) \cap InFlight(w2) = {}

\* C4: a stage-1 status of classified or none_classified never changes, and
\* failed changes only to pending, by an operator request.
C4_TerminalFinal ==
    [][ \A id \in DOMAIN products :
          /\ products[id].status_stage1 \in {CLASSIFIED, NONE_CLASSIFIED} =>
               products'[id].status_stage1 = products[id].status_stage1
          /\ (products[id].status_stage1 = FAILED /\ products'[id].status_stage1 # FAILED) =>
               (products'[id].status_stage1 = PENDING /\ requests' # requests)
      ]_vars

\* C7: a batch whose every call is answered with an overload error gets
\* more call attempts before it is given up than a batch whose every call
\* times out, and its waits grow linearly and are longer than the timeout
\* waits.
OnlyErrors(e, kind) ==
    /\ e.errors # <<>>
    /\ e.calls = Len(e.errors)
    /\ \A i \in 1..Len(e.errors) : e.errors[i] = kind
GivenUp(e) == e.outcome \in {"raise", "none"}

C7_OverloadAllowance ==
    \A w1, w2 \in Workers :
      \A i1 \in 1..Len(ended[w1]), i2 \in 1..Len(ended[w2]) :
        LET over == ended[w1][i1]
            time == ended[w2][i2]
        IN (OnlyErrors(over, "529") /\ GivenUp(over) /\ OnlyErrors(time, "timeout")
              /\ GivenUp(time) /\ ~time.split) =>
             /\ over.calls > time.calls
             /\ \A i \in 1..Len(over.waits) : over.waits[i] = i * over.waits[1]
             /\ \A i \in 1..Min(Len(over.waits), Len(time.waits)) :
                  over.waits[i] > time.waits[i]

(***************************************************************************)
(* SpecBatch: one stage-1 worker on a pool large enough for a batch of     *)
(* more than 10 documents, the size at which a timed-out batch is          *)
(* bisected.                                                               *)
(***************************************************************************)
InitBatch == InitWith(NumProductsBatch, {"worker_1"}, {NumProductsBatch}, 1..3)

NextBatch ==
    \/ GetPendingProductsAtomic("worker_1")
    \/ ClassifyBatchOk("worker_1")
    \/ ClassifyBatchTimeout("worker_1")
    \/ ClassifyBatchRateLimit("worker_1")
    \/ ClassifyBatchOverloaded("worker_1")
    \/ ClassifyBatchError("worker_1")

SpecBatch == InitBatch /\ [][NextBatch]_vars

\* C5: when an invocation of stage-1 process_batch ends with an exception,
\* every document of the batch passed to it is failed.
C5_RaiseMarksFailed ==
    \A w \in Workers : \A i \in 1..Len(ended[w]) :
        ended[w][i].outcome = "raise" =>
            \A id \in Range(ended[w][i].products) : products[id].status_stage1 = FAILED

\* C6: when an invocation that bisected its batch ends, every document of
\* the batch has a terminal status: each half was sent to the service
\* whatever happened to the other.
C6_SplitAllTerminal ==
    \A w \in Workers : \A i \in 1..Len(ended[w]) :
        ended[w][i].split =>
            /\ FirstHalf(ended[w][i].products) \o SecondHalf(ended[w][i].products)
                   = ended[w][i].products
            /\ \A id \in Range(ended[w][i].products) :
                   products[id].status_stage1 \in {CLASSIFIED, NONE_CLASSIFIED, FAILED}

(***************************************************************************)
(* SpecRetry: a stage-1 worker on NumProducts documents and a stage-2      *)
(* worker on two documents, with MAX_RETRIES from 1 to MaxRetries.         *)
(***************************************************************************)
InitRetry ==
    /\ products = [ id \in 1..(NumProducts + 2) |->
                      [ (IF id <= NumProducts THEN NewDocument
                         ELSE StageTwoDocument(<<"10.71.1">>)) EXCEPT !.source_id = id ] ]
    /\ batch_size = 2
    /\ max_retries \in 1..MaxRetries
    /\ worker = [ w \in Workers |-> IF w = "worker_1" THEN NewWorker ELSE NoWorker ]
    /\ worker2 = [ w \in Stage2Workers |-> NewWorker2 ]
    /\ ended = [ w \in AllWorkers |-> <<>> ]
    /\ now = 0
    /\ requests = 0
    /\ NoMigration
    /\ NoMetrics

NextRetry ==
    \/ GetPendingProductsAtomic("worker_1")
    \/ ClassifyBatchOk("worker_1")
    \/ ClassifyBatchTimeout("worker_1")
    \/ ClassifyBatchRateLimit("worker_1")
    \/ ClassifyBatchOverloaded("worker_1")
    \/ ClassifyBatchError("worker_1")
    \/ \E w \in Stage2Workers : SelectClassToProcess(w)
    \/ \E w \in Stage2Workers : GetPendingProductsForClass(w)
    \/ \E w \in Stage2Workers : ClassifyStage2Ok(w)
    \/ \E w \in Stage2Workers : ClassifyStage2RateLimit(w)
    \/ \E w \in Stage2Workers : ClassifyStage2Error(w)

SpecRetry == InitRetry /\ [][NextRetry]_vars

\* C8: in both stages a batch whose calls keep failing with a throttling
\* signal is given up after at most max_retries attempts, with the error
\* propagated and every document of the batch marked failed.
C8_ThrottlingExhausted ==
    \A w \in AllWorkers : \A i \in 1..Len(ended[w]) :
        LET e == ended[w][i]
        IN (OnlyErrors(e, "429") /\ GivenUp(e)) =>
             /\ e.calls <= max_retries
             /\ e.outcome = "raise"
             /\ e.err = "429"
             /\ \A id \in Range(e.products) :
                  IF e.role = "stage2"
                  THEN products[id].status_stg2 = FAILED \/ products[id].status_stage2 = FAILED
                  ELSE products[id].status_stage1 = FAILED

\* The invocations of process_batch that are running or have just ended.
Invocations ==
    UNION { Range(worker[w].stack) : w \in Workers }
      \cup { worker2[w].frame : w \in Stage2Workers }
      \cup UNION { Range(ended[w]) : w \in AllWorkers }

\* C9: under consecutive throttling errors the waits are 30 * 2^(attempt-1),
\* so non-decreasing, and none exceeds 30 * 2^(max_retries-2).
C9_ThrottlingBackoff ==
    \A f \in Invocations :
        (\A i \in 1..Len(f.errors) : f.errors[i] = "429") =>
            /\ Len(f.waits) <= max_retries - 1
            /\ \A i \in 1..Len(f.waits) :
                 /\ f.waits[i] = 30 * Pow2(i - 1)
                 /\ f.waits[i] <= 30 * Pow2(max_retries - 2)
            /\ \A i, j \in 1..Len(f.waits) : i <= j => f.waits[i] <= f.waits[j]

\* Both stages have just given up a batch after three throttling waits.
C9_Witness ==
    /\ \E i \in 1..Len(ended["worker_1"]) :
         /\ OnlyErrors(ended["worker_1"][i], "429")
         /\ Len(ended["worker_1"][i].waits) = 3
    /\ \E i \in 1..Len(ended["stage2_worker_1"]) :
         /\ OnlyErrors(ended["stage2_worker_1"][i], "429")
         /\ Len(ended["stage2_worker_1"][i].waits) = 3

(***************************************************************************)
(* SpecLoop: one stage-1 worker whose failed documents the operator        *)
(* re-queues, with a ceiling below and a ceiling above the floor of 10.    *)
(***************************************************************************)
InitLoop == InitWith(NumProducts, {"worker_1"}, {4, 25}, {1})

NextLoop ==
    \/ GetPendingProductsAtomic("worker_1")
    \/ ClassifyBatchOk("worker_1")
    \/ ClassifyBatchTimeout("worker_1")
    \/ ClassifyBatchRateLimit("worker_1")
    \/ ClassifyBatchOverloaded("worker_1")
    \/ ClassifyBatchError("worker_1")
    \/ ResetFailedProducts

SpecLoop == InitLoop /\ [][NextLoop]_vars

\* The step ends the worker's process_batch call without a result dict.
FailedBatchStep(w) ==
    /\ worker[w].pc = "classify"
    /\ worker'[w].pc = "claim"
    /\ ended'[w][Len(ended'[w])].outcome # "dict"

\* The original C10: any failed batch shrinks the next requested size
\* unless it is at the floor already, and never takes it below the floor.
C10_AnyFailureShrinks ==
    [][ \A w \in Workers :
          FailedBatchStep(w) =>
            /\ worker'[w].current_batch_size < worker[w].current_batch_size
                 \/ worker[w].current_batch_size <= 10
            /\ worker'[w].current_batch_size <= worker[w].current_batch_size
      ]_vars

\* C10 (amended): a failed batch changes current_batch_size only when it
\* failed with a timeout that is at least the second consecutive one, to
\* max(10, size div 2); from a size of at least 10 that is a size not
\* larger than before and not below 10.
C10_TimeoutsShrink ==
    [][ \A w \in Workers :
          FailedBatchStep(w) =>
            LET e == ended'[w][Len(ended'[w])]
                size == worker[w].current_batch_size
                shrinks == /\ e.outcome = "raise"
                           /\ e.err = "timeout"
                           /\ worker[w].consecutive_timeouts >= 1
            IN /\ worker'[w].current_batch_size =
                     IF shrinks THEN Max(10, size \div 2) ELSE size
               /\ size >= 10 => /\ worker'[w].current_batch_size <= size
                                /\ worker'[w].current_batch_size >= 10
               /\ worker'[w].limit = worker'[w].current_batch_size
      ]_vars

\* Consecutive timeouts have taken the size from 25 to the floor and a
\* further one has left it there.
C10_Witness ==
    /\ batch_size = 25
    /\ worker["worker_1"].consecutive_timeouts = 4
    /\ worker["worker_1"].current_batch_size = 10

\* The step ends the worker's process_batch call with a result dict.
SuccessfulBatchStep(w) ==
    /\ worker[w].pc = "classify"
    /\ worker'[w].pc = "claim"
    /\ ended'[w][Len(ended'[w])].outcome = "dict"

\* C11: a successful batch doubles the requested size while it is below the
\* ceiling batch_size, without passing the ceiling, and from the ceiling on
\* the size stays at the ceiling.
C11_GrowthToCeiling ==
    [][ \A w \in Workers :
          SuccessfulBatchStep(w) =>
            LET size == worker[w].current_batch_size
                next == worker'[w].current_batch_size
            IN /\ size < batch_size => (next = Min(2 * size, batch_size) /\ next > size)
               /\ size >= batch_size => next = batch_size
               /\ worker'[w].limit = next
      ]_vars

(***************************************************************************)
(* The stage-1 response parser, PromptBuilder.parse_classification_response *)
(* and the result write _update_products_with_results on its output.       *)
(* A name is a sequence of words; a response is a sequence of lines, each   *)
(* a name and the tokens that follow it, separated by '|'.                  *)
(***************************************************************************)
MaxLines == 2     \* lines of a response
MaxTokens == 2    \* tokens after the name of a response line

Titles == { <<"Widget", "A">>, <<"Widget", "B">> }
ResponseNames == Titles \cup { <<"widget", "c">> }
Tokens == { "10.71.1", "26.20.1", "10" }

\* okpd2_pattern.match(group) for ^\d{2}\.\d{2}\.\d$ on the tokens of the model.
OkpdPatternMatches(token) == token \in { "10.71.1", "26.20.1" }

\* str.lower() on the words of the model.
Lower(word) ==
    CASE word = "Widget" -> "widget"
      [] word = "A" -> "a"
      [] word = "B" -> "b"
      [] OTHER -> word
LowerName(name) == [ i \in 1..Len(name) |-> Lower(name[i]) ]

\* a in b for two names.
Contains(a, b) ==
    \E k \in 0..(Len(b) - Len(a)) : SubSeq(b, k + 1, k + Len(a)) = a

\* The partial match of lines 238-244.
PartialMatch(name, product_name) ==
    LET name_lower == LowerName(name)
        product_lower == LowerName(product_name)
    IN \/ Contains(product_lower, name_lower)
       \/ Contains(name_lower, product_lower)
       \/ (name_lower # <<>> /\ product_lower # <<>> /\ name_lower[1] = product_lower[1])

\* product_map[product_name] = product_id over the batch (process_batch,
\* lines 75-82): a dict in insertion order, a repeated title keeps its
\* place and takes the later id.
RECURSIVE ProductMapFrom(_, _, _)
ProductMapFrom(batch, i, map) ==
    IF i > Len(batch) THEN map
    ELSE LET name == products[batch[i]].title
             entry == [ name |-> name, id |-> batch[i] ]
         IN ProductMapFrom(batch, i + 1,
                IF \E j \in 1..Len(map) : map[j].name = name
                THEN [ j \in 1..Len(map) |-> IF map[j].name = name THEN entry ELSE map[j] ]
                ELSE Append(map, entry))
ProductMap(batch) == ProductMapFrom(batch, 1, <<>>)

\* Lines 230-246: the exact title first, else the first entry that matches
\* partially; 0 stands for None.
LookupProduct(map, product_name) ==
    IF \E j \in 1..Len(map) : map[j].name = product_name
    THEN map[CHOOSE j \in 1..Len(map) : map[j].name = product_name].id
    ELSE IF \E j \in 1..Len(map) : PartialMatch(map[j].name, product_name)
    THEN map[CHOOSE j \in 1..Len(map) :
               /\ PartialMatch(map[j].name, product_name)
               /\ \A l \in 1..(j - 1) : ~PartialMatch(map[l].name, product_name)].id
    ELSE 0

\* Lines 250-256: the valid tokens among parts[1:6], in order.
ParseGroups(tokens) ==
    SelectSeq(SubSeq(tokens, 1, Min(5, Len(tokens))), OkpdPatternMatches)

\* The for loop over the lines: results[product_id] = groups.
RECURSIVE ParseLines(_, _, _, _)
ParseLines(response, i, map, results) ==
    IF i > Len(response) THEN results
    ELSE LET line == response[i]
             product_id == LookupProduct(map, line.name)
             groups == ParseGroups(line.tokens)
         IN ParseLines(response, i + 1, map,
                IF line.tokens # <<>> /\ product_id # 0 /\ groups # <<>>
                THEN [ id \in DOMAIN results \cup {product_id} |->
                         IF id = product_id THEN groups ELSE results[id] ]
                ELSE results)
ParseClassificationResponse(response, map) == ParseLines(response, 1, map, <<>>)

\* _update_products_with_results on the parsed results.
UpdateProductsWithResults(batch, results, w) ==
    [ i \in 1..Len(batch) |->
        IF batch[i] \in DOMAIN results
        THEN [ _id |-> batch[i],
               data |-> [ status_stage1 |-> CLASSIFIED, okpd_group |-> results[batch[i]],
                          worker_id |-> w ] ]
        ELSE [ _id |-> batch[i],
               data |-> [ status_stage1 |-> NONE_CLASSIFIED, worker_id |-> w ] ] ]

\* The responses of the model.
SeqsUpTo(S, n) == UNION { [1..k -> S] : k \in 0..n }
ResponseLinesOf == [ name : ResponseNames, tokens : SeqsUpTo(Tokens, MaxTokens) ]
Responses == SeqsUpTo(ResponseLinesOf, MaxLines)

\* The call returns the text response: lines 88-117.
ClassifyBatchResponse(w) ==
    /\ worker[w].pc = "classify"
    /\ LET f == Top(worker[w])
       IN \E response \in Responses :
            LET results == ParseClassificationResponse(response, ProductMap(f.products))
                classified_count == Cardinality(DOMAIN results)
            IN /\ products' = BulkUpdateProducts(products,
                                  UpdateProductsWithResults(f.products, results, w))
               /\ Finish(w, [f EXCEPT !.calls = @ + 1, !.response = response],
                         RetDict(classified_count, Len(f.products) - classified_count))
    /\ UNCHANGED <<worker2, now, requests, batch_size, max_retries,
                 migration_vars, metrics_vars>>

(***************************************************************************)
(* SpecParse: one stage-1 worker, documents with titles drawn from Titles, *)
(* every call answered with a response of Responses.                       *)
(***************************************************************************)
InitParse ==
    /\ \E t \in [1..NumProductsClaim -> Titles] :
         products = [ id \in 1..NumProductsClaim |-> [ NewDocument EXCEPT !.title = t[id], !.source_id = id ] ]
    /\ batch_size = 2
    /\ max_retries = 1
    /\ worker = [ w \in Workers |-> IF w = "worker_1" THEN NewWorker ELSE NoWorker ]
    /\ worker2 = [ w \in Stage2Workers |-> NoWorker2 ]
    /\ ended = [ w \in AllWorkers |-> <<>> ]
    /\ now = 0
    /\ requests = 0
    /\ NoMigration
    /\ NoMetrics

NextParse ==
    \/ GetPendingProductsAtomic("worker_1")
    \/ ClassifyBatchResponse("worker_1")
    \/ ClassifyBatchError("worker_1")

SpecParse == InitParse /\ [][NextParse]_vars

\* The tokens of a response line that are valid coarse codes, in order.
ValidCodes(tokens) == SelectSeq(tokens, OkpdPatternMatches)

\* The response lines for the document id: the lines that carry its title.
LinesFor(response, id) ==
    { j \in 1..Len(response) : response[j].name = products[id].title }

\* C12: after a process_batch call that returned normally, a document of
\* the batch is classified with the valid codes of a response line for it,
\* in response order, if some line for it has a valid code, and is
\* none_classified otherwise.
C12_ResponseDecidesStatus ==
    \A w \in Workers : \A i \in 1..Len(ended[w]) :
        LET e == ended[w][i]
        IN (e.outcome = "dict" /\ e.role = "top") =>
             \A id \in Range(e.products) :
               LET good == { j \in LinesFor(e.response, id) :
                               ValidCodes(e.response[j].tokens) # <<>> }
               IN IF good # {}
                  THEN /\ products[id].status_stage1 = CLASSIFIED
                       /\ \E j \in good :
                            products[id].okpd_groups = ValidCodes(e.response[j].tokens)
                  ELSE products[id].status_stage1 = NONE_CLASSIFIED

\* C13: the okpd_groups of a classified document holds no invalid code and
\* no code twice.
C13_GroupsValidAndDistinct ==
    \A id \in DOMAIN products :
        products[id].status_stage1 = CLASSIFIED =>
            LET groups == products[id].okpd_groups
            IN /\ \A i \in 1..Len(groups) : OkpdPatternMatches(groups[i])
               /\ \A i, j \in 1..Len(groups) : groups[i] = groups[j] => i = j

(***************************************************************************)
(* SpecStage2: a stage-1 worker, a stage-2 worker and the operator         *)
(* endpoints on a collection that holds migrated documents and documents   *)
(* of the ProductStageTwo schema.                                          *)
(***************************************************************************)
\* POST /reset-failed-stage2 (api/endpoints/classification_stage2.py), with
\* or without okpd_class ("-" stands for None).
ResetFailedStage2Products ==
    /\ requests < MaxRequests
    /\ \E cls \in { OkpdClass(c) : c \in Codes } \cup {"-"} :
         products' = [ id \in DOMAIN products |->
             IF /\ products[id].status_stg1 = CLASSIFIED
                /\ products[id].status_stg2 = FAILED
                /\ cls # "-" =>
                     \E i \in 1..Len(products[id].okpd_group) :
                         OkpdClass(products[id].okpd_group[i]) = cls
             THEN [ products[id] EXCEPT !.status_stg2 = PENDING ]
             ELSE products[id] ]
    /\ requests' = requests + 1
    /\ UNCHANGED <<worker, worker2, ended, now, batch_size, max_retries,
                 migration_vars, metrics_vars>>

\* POST /workers/cleanup-stuck (api/endpoints/monitoring.py): status_stg1
\* processing and processing_started_at older than ten minutes; old is the
\* set of documents whose timestamp is before the cutoff.
MonitoringCleanupStuckProducts ==
    /\ requests < MaxRequests
    /\ \E old \in SUBSET { id \in DOMAIN products : products[id].processing_started_at # <<>> } :
         products' = [ id \in DOMAIN products |->
             IF products[id].status_stg1 = PROCESSING /\ id \in old
             THEN [ products[id] EXCEPT !.status_stg1 = PENDING,
                                        !.processing_started_at = <<>>,
                                        !.worker_id = "absent" ]
             ELSE products[id] ]
    /\ requests' = requests + 1
    /\ UNCHANGED <<worker, worker2, ended, now, batch_size, max_retries,
                 migration_vars, metrics_vars>>

\* The documents of the ProductStageTwo schema: a stage-1 outcome in
\* status_stg1 and a list okpd_group.
LegacyGroups == { <<>>, <<"10.71.1">>, <<"26.20.1", "10.71.1">> }
LegacyDocuments ==
    { [ StageTwoDocument(g) EXCEPT !.status_stg1 = s ] :
        s \in {CLASSIFIED, NONE_CLASSIFIED}, g \in LegacyGroups }

InitStage2 ==
    /\ \E legacy \in [ 2..(NumProducts + 1) -> LegacyDocuments ] :
         products = [ id \in 1..(NumProducts + 1) |->
                        [ (IF id = 1 THEN NewDocument ELSE legacy[id])
                            EXCEPT !.source_id = id ] ]
    /\ batch_size = 2
    /\ max_retries = 1
    /\ worker = [ w \in Workers |-> IF w = "worker_1" THEN NewWorker ELSE NoWorker ]
    /\ worker2 = [ w \in Stage2Workers |-> NewWorker2 ]
    /\ ended = [ w \in AllWorkers |-> <<>> ]
    /\ now = 0
    /\ requests = 0
    /\ NoMigration
    /\ NoMetrics

NextStage2 ==
    \/ GetPendingProductsAtomic("worker_1")
    \/ ClassifyBatchOk("worker_1")
    \/ ClassifyBatchTimeout("worker_1")
    \/ ClassifyBatchRateLimit("worker_1")
    \/ ClassifyBatchOverloaded("worker_1")
    \/ ClassifyBatchError("worker_1")
    \/ \E w \in Stage2Workers : SelectClassToProcess(w)
    \/ \E w \in Stage2Workers : GetPendingProductsForClass(w)
    \/ \E w \in Stage2Workers : ClassifyStage2Ok(w)
    \/ \E w \in Stage2Workers : ClassifyStage2RateLimit(w)
    \/ \E w \in Stage2Workers : ClassifyStage2Error(w)
    \/ ResetFailedProducts
    \/ CleanupStuckProducts
    \/ ResetFailedStage2Products
    \/ MonitoringCleanupStuckProducts

SpecStage2 == InitStage2 /\ [][NextStage2]_vars

\* The documents a step of get_pending_products_for_class adds to the batch
\* of the stage-2 worker w.
Stage2Claimed(w) == Range(worker2'[w].batch) \ Range(worker2[w].batch)

\* C14: a document that a stage-2 claim returns has, at the time of the
\* claim, the stage-1 status classified and a non-empty group list; a
\* document whose stage-1 status is none_classified, failed, pending or
\* processing is never claimed by stage 2.
C14_Stage2ClaimsClassified ==
    [][ \A w \in Stage2Workers : \A id \in Stage2Claimed(w) :
          /\ products[id].status_stg1 = CLASSIFIED
          /\ products[id].okpd_group # <<>>
          /\ products[id].status_stg1 \notin {NONE_CLASSIFIED, FAILED, PENDING, PROCESSING}
          /\ products[id].status_stage1 \notin {NONE_CLASSIFIED, FAILED, PENDING, PROCESSING}
      ]_vars

\* The stage-2 worker holds a claimed batch while a none_classified document
\* with a group of the class it works on is still unclaimed.
C14_Witness ==
    \E w \in Stage2Workers :
        /\ worker2[w].pc = "classify"
        /\ worker2[w].batch # <<>>
        /\ \E id \in DOMAIN products :
             /\ products[id].status_stg1 = NONE_CLASSIFIED
             /\ products[id].status_stg2 = PENDING
             /\ \E i \in 1..Len(products[id].okpd_group) :
                  OkpdClass(products[id].okpd_group[i]) = worker2[w].current_class

\* C16: a document claimed into the stage-2 batch for class C has C as the
\* class of its first group.
C16_ClaimedByFirstGroup ==
    [][ \A w \in Stage2Workers : \A id \in Stage2Claimed(w) :
          /\ products[id].okpd_group # <<>>
          /\ OkpdClass(products[id].okpd_group[1]) = worker2[w].current_class
      ]_vars

\* The stage-2 status of a document, whichever of the two field names holds it.
Stage2Status(id) ==
    IF products[id].status_stage2 # "absent" THEN products[id].status_stage2
    ELSE products[id].status_stg2

\* C17: when stage-2 process_batch has ended, every document of its batch
\* has a terminal stage-2 status: classified (with okpd2_code set) or
\* none_classified after a successful call, failed after an exception.
C17_Stage2BatchTerminal ==
    \A w \in Stage2Workers : \A i \in 1..Len(ended[w]) :
        LET e == ended[w][i]
        IN \A id \in Range(e.products) :
             /\ Stage2Status(id) \in {CLASSIFIED, NONE_CLASSIFIED, FAILED}
             /\ e.outcome = "dict" => Stage2Status(id) \in {CLASSIFIED, NONE_CLASSIFIED}
             /\ Stage2Status(id) = CLASSIFIED => products[id].okpd2_code # "absent"
             /\ e.outcome = "raise" => Stage2Status(id) = FAILED

\* C18: okpd2_code is set only on a document whose stage-2 status is
\* classified.
C18_CodeOnlyWhenClassified ==
    \A id \in DOMAIN products :
        products[id].okpd2_code # "absent" => Stage2Status(id) = CLASSIFIED

\* C20: a document whose stage-1 status is processing has a stage-1 owner
\* and claim timestamp, and one whose stage-2 status is processing has a
\* stage-2 owner and claim timestamp.
C20_ProcessingHasOwner ==
    \A id \in DOMAIN products :
        /\ products[id].status_stage1 = PROCESSING =>
             /\ products[id].worker_id # "absent"
             /\ products[id].processing_started_at # <<>>
        /\ Stage2Status(id) = PROCESSING =>
             /\ products[id].stage2_worker_id # "absent"
             /\ products[id].stage2_started_at # <<>>

\* A document is processing in stage 1 while another is processing in
\* stage 2.
C20_Witness ==
    /\ \E id \in DOMAIN products :
         products[id].status_stage1 = PROCESSING /\ products[id].worker_id = "worker_1"
    /\ \E id \in DOMAIN products :
         /\ products[id].status_stg2 = PROCESSING
         /\ products[id].stage2_worker_id = "stage2_worker_1"

\* C19: okpd_groups is set only on a document whose stage-1 status is
\* classified.
C19_GroupsOnlyWhenClassified ==
    \A id \in DOMAIN products :
        products[id].okpd_groups # <<>> => products[id].status_stage1 = CLASSIFIED

(***************************************************************************)
(* SpecRetryFair: SpecRetry with both worker loops kept running; each      *)
(* worker is a coroutine of its own process and its loop never ends.       *)
(***************************************************************************)
Stage1Step ==
    \/ GetPendingProductsAtomic("worker_1")
    \/ ClassifyBatchOk("worker_1")
    \/ ClassifyBatchTimeout("worker_1")
    \/ ClassifyBatchRateLimit("worker_1")
    \/ ClassifyBatchOverloaded("worker_1")
    \/ ClassifyBatchError("worker_1")

Stage2Step ==
    \E w \in Stage2Workers :
        \/ SelectClassToProcess(w)
        \/ GetPendingProductsForClass(w)
        \/ ClassifyStage2Ok(w)
        \/ ClassifyStage2RateLimit(w)
        \/ ClassifyStage2Error(w)

SpecRetryFair ==
    InitRetry /\ [][NextRetry]_vars /\ WF_vars(Stage1Step) /\ WF_vars(Stage2Step)

\* C15: a document that stage 1 has marked classified with a non-empty
\* group list is eventually in the batch of a stage-2 claim.
C15_ClassifiedReachesStage2 ==
    \A id \in 1..(NumProducts + 2) :
        (products[id].status_stage1 = CLASSIFIED /\ products[id].okpd_groups # <<>>)
            ~> (\E w \in Stage2Workers : id \in Range(worker2[w].batch))

\* The terminal statuses of stage 1.
TerminalStage1 == {CLASSIFIED, NONE_CLASSIFIED, FAILED}

\* The original C21: a document in a terminal stage-1 status has no owner
\* and no claim timestamp.
C21_TerminalHasNoOwner ==
    \A id \in DOMAIN products :
        products[id].status_stage1 \in TerminalStage1 =>
            /\ products[id].worker_id = "absent"
            /\ products[id].processing_started_at = <<>>

\* C21 (amended): the write that persists a stage-1 outcome sets a terminal
\* status and the writing worker as worker_id and leaves the claim timestamp
\* as it is, so a document in a terminal status has a worker_id and a claim
\* timestamp.
C21_ReleaseKeepsOwner ==
    [][ \A id \in DOMAIN products :
          /\ (products'[id] # products[id] /\ products'[id].status_stage1 \in TerminalStage1) =>
               /\ \E w \in Workers :
                    /\ worker[w].pc = "classify"
                    /\ id \in Range(Top(worker[w]).products)
                    /\ products'[id].worker_id = w
               /\ products'[id].processing_started_at = products[id].processing_started_at
          /\ products'[id].status_stage1 \in TerminalStage1 =>
               /\ products'[id].worker_id \in Workers
               /\ products'[id].processing_started_at # <<>>
      ]_vars

\* A document has been released as classified and another as failed, both
\* still carrying their worker and claim timestamp.
C21_Witness ==
    \E id1, id2 \in DOMAIN products :
        /\ products[id1].status_stage1 = CLASSIFIED
        /\ products[id2].status_stage1 = FAILED
        /\ \A id \in {id1, id2} :
             /\ products[id].worker_id = "worker_1"
             /\ products[id].processing_started_at # <<>>

\* Minutes after which monitoring.py counts a processing document as stuck.
StuckThreshold == 10

\* The claim of document id is younger than the stuck threshold.
ClaimedRecently(id) ==
    /\ products[id].processing_started_at # <<>>
    /\ now - products[id].processing_started_at[1] < StuckThreshold

\* C22: a request to an endpoint leaves every document that is in processing
\* and was claimed more recently than the stuck threshold in processing, with
\* its owner unchanged.
C22_SweepSparesRecent ==
    [][ requests' # requests =>
          \A id \in DOMAIN products :
              (products[id].status_stage1 = PROCESSING /\ ClaimedRecently(id)) =>
                  /\ products'[id].status_stage1 = PROCESSING
                  /\ products'[id].worker_id = products[id].worker_id
      ]_vars

(***************************************************************************)
(* SpecCrash: two stage-1 workers, one of which can be stopped in the      *)
(* middle of a batch; the operator may call POST /cleanup-stuck.           *)
(***************************************************************************)
\* ClassificationWorker.start is interrupted at an await: the except and
\* finally clauses close the store connection and write nothing.
Crash(w) ==
    /\ worker[w].pc \in {"claim", "classify"}
    /\ worker' = [worker EXCEPT ![w] = NoWorker]
    /\ UNCHANGED <<products, worker2, ended, now, requests, batch_size, max_retries,
                 migration_vars, metrics_vars>>

\* One step of the loop of worker w.
WorkerStep(w) ==
    \/ GetPendingProductsAtomic(w)
    \/ ClassifyBatchOk(w)
    \/ ClassifyBatchTimeout(w)
    \/ ClassifyBatchRateLimit(w)
    \/ ClassifyBatchOverloaded(w)
    \/ ClassifyBatchError(w)

InitCrash == InitWith(NumProducts, Workers, {2}, {1})

NextCrash ==
    \/ \E w \in Workers : GetPendingProductsAtomic(w)
    \/ \E w \in Workers : ClassifyBatchOk(w)
    \/ \E w \in Workers : ClassifyBatchTimeout(w)
    \/ \E w \in Workers : ClassifyBatchRateLimit(w)
    \/ \E w \in Workers : ClassifyBatchOverloaded(w)
    \/ \E w \in Workers : ClassifyBatchError(w)
    \/ Crash("worker_1")
    \/ CleanupStuckProducts

\* The running workers keep taking steps; nothing obliges a worker to be
\* stopped or an operator to send a request.
SpecCrash ==
    InitCrash /\ [][NextCrash]_vars /\ \A w \in Workers : WF_vars(WorkerStep(w))

\* C23: a document left in processing by a worker that stopped before
\* persisting a result eventually returns to pending.
C23_CrashedClaimReturns ==
    \A id \in 1..NumProducts :
        (/\ products[id].status_stage1 = PROCESSING
         /\ products[id].worker_id = "worker_1"
         /\ worker["worker_1"].pc = "off")
            ~> (products[id].status_stage1 = PENDING)

(***************************************************************************)
(* Migration: SourceMongoStore, the migration part of TargetMongoStore,    *)
(* ProductMigrator and MigrationWorker.  A source _id is a positive        *)
(* integer (0 stands for None), a job_id is the position of the job in     *)
(* migration_jobs, an absent status argument is "".                        *)
(***************************************************************************)
NumSource == 3      \* documents of the source collection goods
MaxJobs == 2        \* migration jobs created
MaxRuns == 2        \* tasks that run _run_migration_all_collections
MaxFaults == 1      \* store errors raised

\* The orders a collection can hold the documents of S in.
Perms(S) ==
    { f \in [1..Cardinality(S) -> S] :
        \A i, j \in 1..Cardinality(S) : i # j => f[i] # f[j] }

\* The elements of S in ascending order (a scan of the _id index).
RECURSIVE Ascending(_)
Ascending(S) ==
    IF S = {} THEN <<>>
    ELSE LET m == CHOOSE x \in S : \A y \in S : x <= y
         IN <<m>> \o Ascending(S \ {m})

\* get_products_batch: find(query).limit(limit) without a sort.  The empty
\* query scans the collection in natural order; the query _id > last_id
\* walks the _id index.
GetProductsBatch(limit, last_id, collection_name) ==
    LET found == IF last_id = 0
                 THEN source[collection_name]
                 ELSE Ascending({ id \in Range(source[collection_name]) : id > last_id })
    IN SubSeq(found, 1, Min(limit, Len(found)))

\* count_all_products and the sum start_migration takes of it.
CollectionCounts == [ c \in Range(Collections) |-> Len(source[c]) ]

RECURSIVE SumCounts(_)
SumCounts(i) ==
    IF i = 0 THEN 0 ELSE CollectionCounts[Collections[i]] + SumCounts(i - 1)

TotalProducts == SumCounts(Len(Collections))

\* The unique index on (source_id, source_collection) rejects a document
\* whose pair the target collection already holds.
Duplicate(source_id, collection_name) ==
    \E id \in DOMAIN products :
        /\ products[id].source_id = source_id
        /\ products[id].source_collection = collection_name

\* The documents of a page that insert_many(ordered=False) inserts.
Inserted(page, collection_name) ==
    SelectSeq(page, LAMBDA source_id : ~Duplicate(source_id, collection_name))

\* Faulty variant: the insert takes every document of the page.
InsertProductsBatchNoIndex(page, collection_name) ==
    products \o [ i \in 1..Len(page) |->
                    [ NewDocument EXCEPT !.source_collection = collection_name,
                                         !.source_id = page[i] ] ]

\* insert_products_batch: the target collection after the insert.
InsertProductsBatch(page, collection_name) ==
    products \o [ i \in 1..Len(Inserted(page, collection_name)) |->
                    [ NewDocument EXCEPT !.source_collection = collection_name,
                                         !.source_id = Inserted(page, collection_name)[i] ] ]

\* create_migration_job
CreateMigrationJob(total_products) ==
    Append(migration_jobs, [ status |-> "running",
                             total_products |-> total_products,
                             migrated_products |-> 0,
                             last_processed_id |-> 0 ])

\* update_migration_job: last_processed_id and status are written only
\* when they are given.
UpdateMigrationJob(jobs, job_id, migrated_products, last_processed_id, status) ==
    [ jobs EXCEPT ![job_id] =
        [ @ EXCEPT !.migrated_products = migrated_products,
                   !.last_processed_id = IF last_processed_id # 0 THEN last_processed_id ELSE @,
                   !.status = IF status # "" THEN status ELSE @ ] ]

\* The position of the for loop of _run_migration_all_collections after
\* position i: the next collection whose count is not 0.
NextCollection(i) ==
    IF \E k \in (i + 1)..Len(Collections) : CollectionCounts[Collections[k]] # 0
    THEN CHOOSE k \in (i + 1)..Len(Collections) :
            /\ CollectionCounts[Collections[k]] # 0
            /\ \A m \in (i + 1)..(k - 1) : CollectionCounts[Collections[m]] = 0
    ELSE Len(Collections) + 1

\* A task entering _run_migration_all_collections for job_id in process
\* owner, at the first call of _migrate_collection.
NewRun(job_id, owner) ==
    [ job |-> job_id, owner |-> owner, pc |-> "copy",
      coll |-> NextCollection(0),
      total_migrated |-> 0, migrated_count |-> 0, last_id |-> 0,
      bound |-> FALSE, duplicates |-> 0 ]

\* Faulty variant: the task does not leave the collection, as if the empty
\* page did not break the loop.
StayInCollection(run, returned) ==
    [ run EXCEPT !.bound = TRUE ]

\* The task leaves the call of _migrate_collection: with its result when
\* returned is TRUE, through the except clause of line 110 otherwise.  The
\* loop goes to the next collection; after the last one the job is marked
\* completed.
LeaveCollection(run, returned) ==
    LET total == IF returned THEN run.total_migrated + run.migrated_count
                 ELSE run.total_migrated
        next == NextCollection(run.coll)
    IN [ run EXCEPT !.total_migrated = total,
                    !.migrated_count = 0,
                    !.last_id = 0,
                    !.bound = FALSE,
                    !.coll = next,
                    !.pc = IF next > Len(Collections) THEN "done" ELSE "copy" ]

\* The jobs after the task has left a collection.
JobsAfterCollection(run, returned) ==
    LET after == LeaveCollection(run, returned)
    IN IF after.pc = "done"
       THEN UpdateMigrationJob(migration_jobs, run.job, after.total_migrated, 0, "completed")
       ELSE migration_jobs

\* start_migration in process owner: the job and the background task.
StartMigration(owner) ==
    /\ Len(migration_jobs) < MaxJobs
    /\ Len(runs) < MaxRuns
    /\ IF TotalProducts = 0
       THEN /\ migration_jobs' = UpdateMigrationJob(CreateMigrationJob(0),
                                     Len(migration_jobs) + 1, 0, 0, "completed")
            /\ runs' = runs
       ELSE /\ migration_jobs' = CreateMigrationJob(TotalProducts)
            /\ runs' = Append(runs, NewRun(Len(migration_jobs) + 1, owner))

\* start_migration when test_connection fails: a failed job of 0 products.
StartMigrationFails ==
    /\ Len(migration_jobs) < MaxJobs
    /\ faults < MaxFaults
    /\ faults' = faults + 1
    /\ migration_jobs' = UpdateMigrationJob(CreateMigrationJob(0),
                             Len(migration_jobs) + 1, 0, 0, "failed")
    /\ UNCHANGED <<products, worker, worker2, ended, now, requests, batch_size, max_retries,
                   source, runs, migration_worker, redis_lock, migration_batch_size,
                   metrics_vars>>

\* POST /start
StartMigrationRequest ==
    /\ StartMigration("api")
    /\ UNCHANGED <<products, worker, worker2, ended, now, requests, batch_size, max_retries,
                   source, migration_worker, redis_lock, migration_batch_size, faults,
                   metrics_vars>>

\* One iteration of the while loop of _migrate_collection without an
\* exception: the page is read, inserted and the progress written; an empty
\* page ends the collection.
MigratePage(r) ==
    /\ r \in DOMAIN runs
    /\ runs[r].pc = "copy"
    /\ LET run == runs[r]
           collection_name == Collections[run.coll]
           page == GetProductsBatch(migration_batch_size, run.last_id, collection_name)
           inserted == Len(Inserted(page, collection_name))
       IN IF page = <<>>
          THEN /\ runs' = [runs EXCEPT ![r] = LeaveCollection(run, TRUE)]
               /\ migration_jobs' = JobsAfterCollection(run, TRUE)
               /\ UNCHANGED products
          ELSE /\ products' = InsertProductsBatch(page, collection_name)
               /\ runs' = [runs EXCEPT ![r] =
                      [ run EXCEPT !.migrated_count = @ + inserted,
                                   !.duplicates = @ + (Len(page) - inserted),
                                   !.last_id = page[Len(page)],
                                   !.bound = TRUE ]]
               /\ migration_jobs' = UpdateMigrationJob(migration_jobs, run.job,
                      run.total_migrated + run.migrated_count + inserted,
                      page[Len(page)], "")
    /\ UNCHANGED <<worker, worker2, ended, now, requests, batch_size, max_retries,
                   source, migration_worker, redis_lock, migration_batch_size, faults,
                   metrics_vars>>

\* An iteration in which insert_many raises an error that is not a
\* BulkWriteError: the except clause of line 195 moves last_id past the
\* page and the loop continues.
MigratePageInsertFails(r) ==
    /\ r \in DOMAIN runs
    /\ runs[r].pc = "copy"
    /\ faults < MaxFaults
    /\ LET run == runs[r]
           page == GetProductsBatch(migration_batch_size, run.last_id, Collections[run.coll])
       IN /\ page # <<>>
          /\ runs' = [runs EXCEPT ![r] =
                 [ run EXCEPT !.last_id = page[Len(page)], !.bound = TRUE ]]
    /\ faults' = faults + 1
    /\ UNCHANGED <<products, worker, worker2, ended, now, requests, batch_size, max_retries,
                   source, migration_jobs, migration_worker, redis_lock,
                   migration_batch_size, metrics_vars>>

\* An iteration in which get_products_batch raises.  When no page has been
\* read in this call, the except clause of line 195 reads the unbound local
\* products; the UnboundLocalError leaves _migrate_collection and the
\* except clause of line 110 goes on to the next collection.  Otherwise
\* last_id keeps its value and the loop reads the page again.
MigratePageSourceFails(r) ==
    /\ r \in DOMAIN runs
    /\ runs[r].pc = "copy"
    /\ faults < MaxFaults
    /\ IF runs[r].bound
       THEN UNCHANGED <<runs, migration_jobs>>
       ELSE /\ runs' = [runs EXCEPT ![r] = LeaveCollection(runs[r], FALSE)]
            /\ migration_jobs' = JobsAfterCollection(runs[r], FALSE)
    /\ faults' = faults + 1
    /\ UNCHANGED <<products, worker, worker2, ended, now, requests, batch_size, max_retries,
                   source, migration_worker, redis_lock, migration_batch_size,
                   metrics_vars>>

(***************************************************************************)
(* SpecMigrate: migrations requested one after the other over a source     *)
(* that does not change, without store errors.                             *)
(***************************************************************************)
\* The sources of the model: goods holds NumSource documents and tools two,
\* in any natural order; the collection empty holds none.
Sources ==
    { [ c \in Range(Collections) |->
          IF c = "goods" THEN g ELSE IF c = "tools" THEN t ELSE <<>> ] :
        g \in Perms(1..NumSource), t \in Perms(1..2) }

\* An empty target database and no classification worker.
InitMigration(sizes) ==
    /\ products = <<>>
    /\ batch_size = 2
    /\ max_retries = 1
    /\ worker = [ w \in Workers |-> NoWorker ]
    /\ worker2 = [ w \in Stage2Workers |-> NoWorker2 ]
    /\ ended = [ w \in AllWorkers |-> <<>> ]
    /\ now = 0
    /\ requests = 0
    /\ source \in Sources
    /\ migration_jobs = <<>>
    /\ runs = <<>>
    /\ migration_worker = [ w \in MigrationWorkers |-> NoMigrationWorker ]
    /\ redis_lock = {}
    /\ migration_batch_size \in sizes
    /\ faults = 0
    /\ NoMetrics

InitMigrate == InitMigration(1..(NumSource + 1))

\* No task is copying.
Idle == \A r \in 1..Len(runs) : runs[r].pc # "copy"

\* POST /start while no task is copying.
StartMigrationWhenIdle == Idle /\ StartMigrationRequest

NextMigrate ==
    \/ StartMigrationWhenIdle
    \/ \E r \in 1..MaxRuns : MigratePage(r)

SpecMigrate == InitMigrate /\ [][NextMigrate]_vars

\* The target collection holds exactly one document, in status pending, for
\* every source document, and nothing else.
OnePendingPerSource ==
    /\ Len(products) = TotalProducts
    /\ \A c \in Range(Collections) : \A source_id \in Range(source[c]) :
         \E id \in DOMAIN products :
            /\ products[id].source_collection = c
            /\ products[id].source_id = source_id
            /\ products[id].status_stage1 = PENDING

\* C25: the first migration over an unchanged source without errors has
\* total_products = the sum of the collection sizes and ends completed with
\* migrated_products = the number of source documents and no duplicate, the
\* target holding one pending document per source document, for every page
\* size and every order of the source.
C25_FirstRunCopiesAll ==
    (Len(migration_jobs) >= 1 /\ migration_jobs[1].status = "completed") =>
        /\ migration_jobs[1].total_products = TotalProducts
        /\ migration_jobs[1].migrated_products = TotalProducts
        /\ runs[1].duplicates = 0
        /\ (Len(runs) = 1 => OnePendingPerSource)

\* C24: a second migration over the unchanged source inserts nothing, leaves
\* the target as it is and, when it ends, has counted every source document
\* as a duplicate.
C24_SecondRunAllDuplicates ==
    [][ (Len(runs) = 2 /\ runs[2].pc = "copy") =>
            /\ products' = products
            /\ runs'[2].pc = "done" =>
                 /\ runs'[2].duplicates = TotalProducts
                 /\ migration_jobs'[2].migrated_products = 0
      ]_vars

(***************************************************************************)
(* Resuming, stopped processes and MigrationWorker.                        *)
(***************************************************************************)
\* The processes that run migrations: the API server and the workers.
Processes == {"api"} \cup MigrationWorkers

\* resume_migration(job_id) in process owner, for a job that exists and is
\* not completed: the status is set to running and
\* _run_migration_all_collections starts.  A worker started with --job-id
\* does this before it monitors.
ResumeMigration(owner, job_id) ==
    /\ job_id \in DOMAIN migration_jobs
    /\ migration_jobs[job_id].status # "completed"
    /\ Len(runs) < MaxRuns
    /\ owner \in MigrationWorkers => migration_worker[owner].pc = "off"
    /\ migration_jobs' = UpdateMigrationJob(migration_jobs, job_id,
                             migration_jobs[job_id].migrated_products, 0, "running")
    /\ runs' = Append(runs, NewRun(job_id, owner))
    /\ migration_worker' =
           IF owner \in MigrationWorkers
           THEN [migration_worker EXCEPT ![owner] = [ pc |-> "monitor", job |-> job_id ]]
           ELSE migration_worker
    /\ UNCHANGED <<products, worker, worker2, ended, now, requests, batch_size, max_retries,
                   source, redis_lock, migration_batch_size, faults, metrics_vars>>

\* The process is stopped: its tasks end where they are and write nothing.
CrashProcess(p) ==
    /\ \E r \in DOMAIN runs : runs[r].owner = p /\ runs[r].pc = "copy"
    /\ runs' = [ r \in DOMAIN runs |->
                   IF runs[r].owner = p /\ runs[r].pc = "copy"
                   THEN [ runs[r] EXCEPT !.pc = "dead" ] ELSE runs[r] ]
    /\ migration_worker' =
           IF p \in MigrationWorkers
           THEN [migration_worker EXCEPT ![p] = [ pc |-> "exited", job |-> 0 ]]
           ELSE migration_worker
    /\ UNCHANGED <<products, worker, worker2, ended, now, requests, batch_size, max_retries,
                   source, migration_jobs, redis_lock, migration_batch_size, faults,
                   metrics_vars>>

\* The jobs check_and_start_migration finds with a status.
JobsWithStatus(status) ==
    { j \in DOMAIN migration_jobs : migration_jobs[j].status = status }

\* check_and_start_migration of worker w (Redis is reachable), called from
\* start or from the waiting loop.  A running job is taken to monitor if
\* SET NX on its lock key succeeds; otherwise a new migration starts when
\* there is no job yet or the source holds more than the target.
CheckAndStartMigration(w) ==
    /\ migration_worker[w].pc \in {"off", "wait"}
    /\ IF JobsWithStatus("running") # {}
       THEN LET job_id == CHOOSE j \in JobsWithStatus("running") :
                              \A k \in JobsWithStatus("running") : j <= k
            IN /\ redis_lock' = redis_lock \cup {job_id}
               /\ migration_worker' = [migration_worker EXCEPT ![w] =
                      IF job_id \in redis_lock
                      THEN [ pc |-> "wait", job |-> 0 ]
                      ELSE [ pc |-> "monitor", job |-> job_id ]]
               /\ UNCHANGED <<migration_jobs, runs>>
       ELSE IF JobsWithStatus("completed") # {} /\ ~(TotalProducts > Len(products))
            THEN /\ migration_worker' = [migration_worker EXCEPT ![w] =
                        [ pc |-> "wait", job |-> 0 ]]
                 /\ UNCHANGED <<migration_jobs, runs, redis_lock>>
            ELSE /\ StartMigration(w)
                 /\ migration_worker' = [migration_worker EXCEPT ![w] =
                        [ pc |-> "monitor", job |-> Len(migration_jobs) + 1 ]]
                 /\ UNCHANGED redis_lock
    /\ UNCHANGED <<products, worker, worker2, ended, now, requests, batch_size, max_retries,
                   source, migration_batch_size, faults, metrics_vars>>

\* monitor_migration of worker w reads a completed or failed job and the
\* worker stops.  (The other iterations renew the lock and change nothing.)
MonitorMigration(w) ==
    /\ migration_worker[w].pc = "monitor"
    /\ \A r \in DOMAIN runs : runs[r].owner = w => runs[r].pc # "copy"
    /\ migration_jobs[migration_worker[w].job].status \in {"completed", "failed"}
    /\ migration_worker' = [migration_worker EXCEPT ![w] = [ pc |-> "exited", job |-> 0 ]]
    /\ UNCHANGED <<products, worker, worker2, ended, now, requests, batch_size, max_retries,
                   source, migration_jobs, runs, redis_lock, migration_batch_size, faults,
                   metrics_vars>>

\* The key migration_lock:<job_id> expires: nobody has renewed it for 300 s.
LockExpires(job_id) ==
    /\ job_id \in redis_lock
    /\ \A w \in MigrationWorkers :
          ~(migration_worker[w].pc = "monitor" /\ migration_worker[w].job = job_id)
    /\ redis_lock' = redis_lock \ {job_id}
    /\ UNCHANGED <<products, worker, worker2, ended, now, requests, batch_size, max_retries,
                   source, migration_jobs, runs, migration_worker, migration_batch_size,
                   faults, metrics_vars>>

(***************************************************************************)
(* SpecJobs: migrations started, resumed and stopped by the API server and *)
(* two workers, with store errors, while a stage-1 worker classifies.      *)
(***************************************************************************)
InitJobs ==
    /\ InitMigration({1, 2})
    /\ source["goods"] = Ascending(1..NumSource)
    /\ source["tools"] = <<1, 2>>

NextJobs ==
    \/ StartMigrationRequest
    \/ StartMigrationFails
    \/ \E r \in 1..MaxRuns : MigratePage(r)
    \/ \E r \in 1..MaxRuns : MigratePageInsertFails(r)
    \/ \E r \in 1..MaxRuns : MigratePageSourceFails(r)
    \/ \E p \in Processes : \E j \in 1..MaxJobs : ResumeMigration(p, j)
    \/ \E p \in Processes : CrashProcess(p)
    \/ \E w \in MigrationWorkers : CheckAndStartMigration(w)
    \/ \E w \in MigrationWorkers : MonitorMigration(w)
    \/ \E j \in 1..MaxJobs : LockExpires(j)

SpecJobs == InitJobs /\ [][NextJobs]_vars

\* The tasks that are copying for job_id.
Drivers(job_id) ==
    { r \in DOMAIN runs : runs[r].job = job_id /\ runs[r].pc = "copy" }

\* The step starts a task for a job that existed before the step and that
\* no task was copying for.
Resumes(job_id) ==
    /\ job_id \in DOMAIN migration_jobs
    /\ Drivers(job_id) = {}
    /\ Len(runs') = Len(runs) + 1
    /\ runs'[Len(runs')].job = job_id

\* C26: resume_migration on an interrupted job continues from the checkpoint
\* of the job: the new task reads after the persisted last_processed_id and
\* counts on from the persisted migrated_products, so that a job that is
\* completed without a store error has migrated_products = the number of
\* documents copied.
C26_ResumeFromCheckpoint ==
    [][ /\ \A j \in 1..MaxJobs :
             Resumes(j) =>
                 /\ runs'[Len(runs')].last_id = migration_jobs[j].last_processed_id
                 /\ runs'[Len(runs')].total_migrated + runs'[Len(runs')].migrated_count
                        = migration_jobs[j].migrated_products
        /\ (Len(migration_jobs') = 1 /\ migration_jobs'[1].status = "completed" /\ faults' = 0) =>
               migration_jobs'[1].migrated_products = Len(products')
      ]_vars

\* Every source document has a target document.
AllCopied ==
    \A c \in Range(Collections) : \A source_id \in Range(source[c]) :
        Duplicate(source_id, c)

\* C27: a job is completed only when every collection has been read to the
\* end and every page inserted or counted as duplicates; a copy that an
\* error cut short leaves the job failed.
C27_CompletedMeansCopied ==
    \A j \in DOMAIN migration_jobs :
        (migration_jobs[j].status = "completed" /\ migration_jobs[j].total_products > 0) =>
            AllCopied

\* C28: at most one task copies for a migration job at any time.
C28_OneDriverPerJob ==
    \A j \in DOMAIN migration_jobs : Cardinality(Drivers(j)) <= 1

(***************************************************************************)
(* SpecIdentity: concurrent, resumed and stopped migrations of the API     *)
(* server while a stage-1 worker classifies what they insert.              *)
(***************************************************************************)
InitIdentity ==
    /\ products = <<>>
    /\ batch_size = 2
    /\ max_retries = 1
    /\ worker = [ w \in Workers |-> IF w = "worker_1" THEN NewWorker ELSE NoWorker ]
    /\ worker2 = [ w \in Stage2Workers |-> NoWorker2 ]
    /\ ended = [ w \in AllWorkers |-> <<>> ]
    /\ now = 0
    /\ requests = 0
    /\ source = [ c \in Range(Collections) |->
                     IF c = "goods" THEN <<2, 1>> ELSE IF c = "tools" THEN <<1>> ELSE <<>> ]
    /\ migration_jobs = <<>>
    /\ runs = <<>>
    /\ migration_worker = [ w \in MigrationWorkers |-> NoMigrationWorker ]
    /\ redis_lock = {}
    /\ migration_batch_size = 2
    /\ faults = 0
    /\ NoMetrics

NextIdentity ==
    \/ StartMigrationRequest
    \/ \E r \in 1..MaxRuns : MigratePage(r)
    \/ \E j \in 1..MaxJobs : ResumeMigration("api", j)
    \/ CrashProcess("api")
    \/ GetPendingProductsAtomic("worker_1")
    \/ ClassifyBatchOk("worker_1")

SpecIdentity == InitIdentity /\ [][NextIdentity]_vars

MaxSamples == 2          \* samples and rate limits recorded
MaxTicks == 2            \* steps of the clock, half a retention period each
WindowMinutes == 60      \* time_window_minutes of the get_*_stats methods

\* The ClassificationMetrics a stage-2 batch can report at time t.
ClassificationSamples(t) ==
    { [ timestamp |-> t, worker_id |-> w, batch_size |-> 2, processing_time |-> 10,
        success_count |-> s, failure_count |-> 2 - s ] :
        w \in Workers, s \in {1} }

\* The MigrationMetrics a page can report at time t.
MigrationSamples(t) ==
    { [ timestamp |-> t, batch_size |-> 2, processing_time |-> 10,
        inserted_count |-> i, duplicate_count |-> 2 - i ] : i \in {1} }

\* The samples of a list with a timestamp after now - minutes.
Recent(samples, minutes) ==
    SelectSeq(samples, LAMBDA m : m.timestamp > now - minutes)

\* sum(m.<field> for m in samples)
RECURSIVE SumOf(_, _)
SumOf(samples, field) ==
    IF samples = <<>> THEN 0
    ELSE samples[1][field] + SumOf(Tail(samples), field)

\* The value the defaultdict creates for a new key.
NewStats ==
    [ total_processed |-> 0, total_classified |-> 0, total_failed |-> 0,
      avg_processing_time |-> 0, rate_limits_hit |-> 0, last_activity |-> <<>> ]

\* self.worker_stats[worker_id]
StatsOf(worker_id) ==
    IF worker_id \in DOMAIN worker_stats THEN worker_stats[worker_id] ELSE NewStats

\* worker_stats with the entry of worker_id replaced by stats.
WithStats(worker_id, stats) ==
    [ w \in DOMAIN worker_stats \cup {worker_id} |->
        IF w = worker_id THEN stats ELSE worker_stats[w] ]

\* sum(stats['rate_limits_hit'] for stats in worker_stats.values()) over
\* the workers of S.
RECURSIVE RateLimitsTotal(_)
RateLimitsTotal(S) ==
    IF S = {} THEN 0
    ELSE LET w == CHOOSE x \in S : TRUE
         IN worker_stats[w].rate_limits_hit + RateLimitsTotal(S \ {w})

\* The samples and rate limits the collector holds.
Written ==
    Len(recorded) + Len(migration_metrics) + RateLimitsTotal(DOMAIN worker_stats)

\* A caller enters one of the methods; the argument is built at the call.
\* Writers are the classifiers and the migrator, readers the monitoring.
Call(c) ==
    /\ calls[c].pc = "idle"
    /\ \/ /\ c \in Writers
          /\ Written < MaxSamples
          /\ \E m \in ClassificationSamples(now) :
               calls' = [calls EXCEPT ![c] =
                   [ op |-> "record_classification", pc |-> "acquire", metric |-> m ]]
       \/ /\ c \in Writers
          /\ Written < MaxSamples
          /\ \E m \in MigrationSamples(now) :
               calls' = [calls EXCEPT ![c] =
                   [ op |-> "record_migration", pc |-> "acquire", metric |-> m ]]
       \/ \E w \in Workers :
            /\ c \in Writers
            /\ Written < MaxSamples
            /\ calls' = [calls EXCEPT ![c] =
                   [ op |-> "record_rate_limit", pc |-> "acquire", worker_id |-> w ]]
       \/ \E op \in {"get_classification_stats", "get_migration_stats"} :
            /\ c \in Readers
            /\ calls' = [calls EXCEPT ![c] = [ op |-> op, pc |-> "acquire" ]]
    /\ UNCHANGED <<products, worker, worker2, ended, now, requests, batch_size, max_retries,
                   migration_vars, classification_metrics, migration_metrics,
                   worker_stats, lock, recorded>>

\* Faulty variant: the method enters its body without waiting for the lock.
AcquireNoLock(c) ==
    /\ calls[c].pc = "acquire"
    /\ lock' = c
    /\ calls' = [calls EXCEPT ![c].pc = "body"]
    /\ UNCHANGED <<products, worker, worker2, ended, now, requests, batch_size, max_retries,
                   migration_vars, classification_metrics, migration_metrics,
                   worker_stats, recorded>>

\* async with self._lock: the call enters when the lock is free.
Acquire(c) ==
    /\ calls[c].pc = "acquire"
    /\ lock = "free"
    /\ lock' = c
    /\ calls' = [calls EXCEPT ![c].pc = "body"]
    /\ UNCHANGED <<products, worker, worker2, ended, now, requests, batch_size, max_retries,
                   migration_vars, classification_metrics, migration_metrics,
                   worker_stats, recorded>>

\* record_classification, line 68: the sample is appended.
RecordClassificationAppend(c) ==
    /\ calls[c].op = "record_classification"
    /\ calls[c].pc = "body"
    /\ classification_metrics' = Append(classification_metrics, calls[c].metric)
    /\ recorded' = Append(recorded, calls[c].metric)
    /\ calls' = [calls EXCEPT ![c].pc = "stats"]
    /\ UNCHANGED <<products, worker, worker2, ended, now, requests, batch_size, max_retries,
                   migration_vars, migration_metrics, worker_stats, lock>>

\* record_classification, lines 71-80: the totals of the worker.  The
\* moving average is kept in whole units.
RecordClassificationStats(c) ==
    /\ calls[c].op = "record_classification"
    /\ calls[c].pc = "stats"
    /\ LET metric == calls[c].metric
           stats == StatsOf(metric.worker_id)
       IN worker_stats' = WithStats(metric.worker_id,
              [ stats EXCEPT
                  !.total_processed = @ + metric.batch_size,
                  !.total_classified = @ + metric.success_count,
                  !.total_failed = @ + metric.failure_count,
                  !.last_activity = <<metric.timestamp>>,
                  !.avg_processing_time = (@ * 9 + metric.processing_time) \div 10 ])
    /\ calls' = [calls EXCEPT ![c].pc = "cleanup"]
    /\ UNCHANGED <<products, worker, worker2, ended, now, requests, batch_size, max_retries,
                   migration_vars, classification_metrics, migration_metrics, lock,
                   recorded>>

\* record_migration, line 88: the sample is appended.
RecordMigrationAppend(c) ==
    /\ calls[c].op = "record_migration"
    /\ calls[c].pc = "body"
    /\ migration_metrics' = Append(migration_metrics, calls[c].metric)
    /\ calls' = [calls EXCEPT ![c].pc = "cleanup"]
    /\ UNCHANGED <<products, worker, worker2, ended, now, requests, batch_size, max_retries,
                   migration_vars, classification_metrics, worker_stats, lock, recorded>>

\* _cleanup_old_metrics at the end of record_classification and
\* record_migration, and the release of the lock.
CleanupOldMetrics(c) ==
    /\ calls[c].pc = "cleanup"
    /\ classification_metrics' = Recent(classification_metrics, RetentionMinutes)
    /\ migration_metrics' = Recent(migration_metrics, RetentionMinutes)
    /\ lock' = "free"
    /\ calls' = [calls EXCEPT ![c] = NoCall]
    /\ UNCHANGED <<products, worker, worker2, ended, now, requests, batch_size, max_retries,
                   migration_vars, worker_stats, recorded>>

\* record_rate_limit
RecordRateLimit(c) ==
    /\ calls[c].op = "record_rate_limit"
    /\ calls[c].pc = "body"
    /\ worker_stats' = WithStats(calls[c].worker_id,
           [ StatsOf(calls[c].worker_id) EXCEPT !.rate_limits_hit = @ + 1 ])
    /\ lock' = "free"
    /\ calls' = [calls EXCEPT ![c] = NoCall]
    /\ UNCHANGED <<products, worker, worker2, ended, now, requests, batch_size, max_retries,
                   migration_vars, classification_metrics, migration_metrics, recorded>>

\* get_classification_stats, lines 113-124: the sums over the samples of
\* the window.  seen and time say what had been recorded at this read.
GetClassificationStatsSums(c) ==
    /\ calls[c].op = "get_classification_stats"
    /\ calls[c].pc = "body"
    /\ LET recent_metrics == Recent(classification_metrics, WindowMinutes)
       IN calls' = [calls EXCEPT ![c] =
              [ op |-> "get_classification_stats", pc |-> "stats",
                seen |-> Len(recorded), time |-> now,
                empty |-> recent_metrics = <<>>,
                total_processed |-> SumOf(recent_metrics, "batch_size"),
                total_classified |-> SumOf(recent_metrics, "success_count") ]]
    /\ UNCHANGED <<products, worker, worker2, ended, now, requests, batch_size, max_retries,
                   migration_vars, classification_metrics, migration_metrics,
                   worker_stats, lock, recorded>>

\* The dict get_classification_stats returns (lines 119-120 and 135-152),
\* with the worker_stats as they are at the return.
ClassificationStats(call) ==
    [ total_processed |-> call.total_processed,
      total_classified |-> call.total_classified,
      total_failed |-> call.total_processed - call.total_classified,
      worker_stats |-> IF call.empty THEN <<>> ELSE worker_stats,
      rate_limits_total |-> IF call.empty THEN 0 ELSE RateLimitsTotal(DOMAIN worker_stats) ]

\* get_classification_stats returns ClassificationStats(calls[c]) to its
\* caller and releases the lock.
GetClassificationStatsReturn(c) ==
    /\ calls[c].op = "get_classification_stats"
    /\ calls[c].pc = "stats"
    /\ calls' = [calls EXCEPT ![c] = NoCall]
    /\ lock' = "free"
    /\ UNCHANGED <<products, worker, worker2, ended, now, requests, batch_size, max_retries,
                   migration_vars, classification_metrics, migration_metrics,
                   worker_stats, recorded>>

\* The dict get_migration_stats returns.
MigrationStats ==
    LET recent_metrics == Recent(migration_metrics, WindowMinutes)
    IN [ batches_processed |-> Len(recent_metrics),
         total_processed |-> SumOf(recent_metrics, "batch_size"),
         total_inserted |-> SumOf(recent_metrics, "inserted_count"),
         total_duplicates |-> SumOf(recent_metrics, "duplicate_count") ]

\* get_migration_stats returns MigrationStats to its caller.
GetMigrationStats(c) ==
    /\ calls[c].op = "get_migration_stats"
    /\ calls[c].pc = "body"
    /\ calls' = [calls EXCEPT ![c] = NoCall]
    /\ lock' = "free"
    /\ UNCHANGED <<products, worker, worker2, ended, now, requests, batch_size, max_retries,
                   migration_vars, classification_metrics, migration_metrics,
                   worker_stats, recorded>>

\* Half a retention period passes.
Tick ==
    /\ now < MaxTicks * (RetentionMinutes \div 2)
    /\ now' = now + RetentionMinutes \div 2
    /\ UNCHANGED <<products, worker, worker2, ended, requests, batch_size, max_retries,
                   migration_vars, metrics_vars>>

(***************************************************************************)
(* SpecMetrics: callers of the collector in any interleaving.              *)
(***************************************************************************)
InitMetrics ==
    /\ products = <<>>
    /\ batch_size = 2
    /\ max_retries = 1
    /\ worker = [ w \in Workers |-> NoWorker ]
    /\ worker2 = [ w \in Stage2Workers |-> NoWorker2 ]
    /\ ended = [ w \in AllWorkers |-> <<>> ]
    /\ now = 0
    /\ requests = 0
    /\ NoMigration
    /\ NoMetrics

NextMetrics ==
    \/ \E c \in MetricsCallers : Call(c)
    \/ \E c \in MetricsCallers : Acquire(c)
    \/ \E c \in MetricsCallers : RecordClassificationAppend(c)
    \/ \E c \in MetricsCallers : RecordClassificationStats(c)
    \/ \E c \in MetricsCallers : RecordMigrationAppend(c)
    \/ \E c \in MetricsCallers : CleanupOldMetrics(c)
    \/ \E c \in MetricsCallers : RecordRateLimit(c)
    \/ \E c \in MetricsCallers : GetClassificationStatsSums(c)
    \/ \E c \in MetricsCallers : GetClassificationStatsReturn(c)
    \/ \E c \in MetricsCallers : GetMigrationStats(c)
    \/ Tick

SpecMetrics == InitMetrics /\ [][NextMetrics]_vars

\* The samples of worker w among the first n recorded ones.
RecordedBy(w, n) ==
    SelectSeq(SubSeq(recorded, 1, n), LAMBDA m : m.worker_id = w)

\* stats holds the sums over samples.
TotalsMatch(stats, samples) ==
    /\ stats.total_processed = SumOf(samples, "batch_size")
    /\ stats.total_classified = SumOf(samples, "success_count")
    /\ stats.total_failed = SumOf(samples, "failure_count")

\* The dict a get_classification_stats call returns was computed from one
\* state of the collector: its sums are those of the samples recorded at its
\* first read that lay in the window, and its worker totals are the sums
\* over the same samples.
ConsistentSnapshot(call) ==
    LET result == ClassificationStats(call)
        samples == SubSeq(recorded, 1, call.seen)
        window == SelectSeq(samples, LAMBDA m : m.timestamp > call.time - WindowMinutes)
    IN /\ result.total_processed = SumOf(window, "batch_size")
       /\ result.total_classified = SumOf(window, "success_count")
       /\ ~call.empty =>
            \A w \in Workers :
                IF w \in DOMAIN result.worker_stats
                THEN TotalsMatch(result.worker_stats[w], RecordedBy(w, call.seen))
                ELSE RecordedBy(w, call.seen) = <<>>

\* The step returns from the get_classification_stats call of c.
Returns(c) ==
    /\ calls[c].op = "get_classification_stats"
    /\ calls[c].pc = "stats"
    /\ calls'[c] = NoCall

\* C30: no sample is lost and reads are snapshots: every recorded sample
\* inside the retention period is in the stored list, in the order of
\* recording; while no call is inside the lock each worker's totals are the
\* sums over that worker's recorded samples; and what a
\* get_classification_stats call returns is the result of one state of the
\* collector.
C30_NoSampleLostSnapshotReads ==
    [][ /\ Recent(recorded, RetentionMinutes) = Recent(classification_metrics, RetentionMinutes)
        /\ lock = "free" =>
             \A w \in Workers : TotalsMatch(StatsOf(w), RecordedBy(w, Len(recorded)))
        /\ \A c \in MetricsCallers : Returns(c) => ConsistentSnapshot(calls[c])
      ]_vars

\* A reader is about to return totals of both workers while a writer waits
\* for the lock, after an old sample has been evicted.
C30_Witness ==
    /\ \E c \in Readers :
         /\ calls[c].op = "get_classification_stats"
         /\ calls[c].pc = "stats"
         /\ ~calls[c].empty
         /\ DOMAIN worker_stats = Workers
    /\ \E c \in Writers : calls[c].pc = "acquire"
    /\ Len(classification_metrics) < Len(recorded)

(***************************************************************************)
(* SpecObserve: a stage-1 worker, a stage-2 worker and a migration, each   *)
(* with work to do, and the metrics collector they share.                  *)
(***************************************************************************)
InitObserve ==
    /\ products = [ id \in 1..2 |->
                      [ (IF id = 1 THEN NewDocument
                         ELSE StageTwoDocument(<<"10.71.1">>)) EXCEPT !.source_id = id ] ]
    /\ batch_size = 2
    /\ max_retries = 2
    /\ worker = [ w \in Workers |-> IF w = "worker_1" THEN NewWorker ELSE NoWorker ]
    /\ worker2 = [ w \in Stage2Workers |-> NewWorker2 ]
    /\ ended = [ w \in AllWorkers |-> <<>> ]
    /\ now = 0
    /\ requests = 0
    /\ source = [ c \in Range(Collections) |-> IF c = "goods" THEN <<1>> ELSE <<>> ]
    /\ migration_jobs = <<>>
    /\ runs = <<>>
    /\ migration_worker = [ w \in MigrationWorkers |-> NoMigrationWorker ]
    /\ redis_lock = {}
    /\ migration_batch_size = 1
    /\ faults = 0
    /\ NoMetrics

NextObserve ==
    \/ GetPendingProductsAtomic("worker_1")
    \/ ClassifyBatchOk("worker_1")
    \/ ClassifyBatchTimeout("worker_1")
    \/ ClassifyBatchRateLimit("worker_1")
    \/ ClassifyBatchOverloaded("worker_1")
    \/ ClassifyBatchError("worker_1")
    \/ SelectClassToProcess("stage2_worker_1")
    \/ GetPendingProductsForClass("stage2_worker_1")
    \/ ClassifyStage2Ok("stage2_worker_1")
    \/ ClassifyStage2RateLimit("stage2_worker_1")
    \/ ClassifyStage2Error("stage2_worker_1")
    \/ StartMigrationRequest
    \/ \E r \in 1..MaxRuns : MigratePage(r)

SpecObserve == InitObserve /\ [][NextObserve]_vars

\* The step ends a top-level process_batch call of a stage-1 worker.
Stage1BatchEnds ==
    \E w \in Workers : worker[w].pc = "classify" /\ worker'[w].pc = "claim"

\* The step ends a process_batch call of a stage-2 worker.
Stage2BatchEnds ==
    \E w \in Stage2Workers : worker2[w].pc = "classify" /\ worker2'[w].pc = "select"

\* The step copies a page of a source collection.
PageCopied ==
    \E r \in DOMAIN runs : runs[r].pc = "copy" /\ runs'[r].last_id # runs[r].last_id
                             /\ runs'[r].bound

\* The step sends a batch again after a failed call.
Retried ==
    \/ \E w \in Workers :
         /\ worker[w].pc = "classify" /\ worker'[w].pc = "classify"
         /\ Len(worker'[w].stack) = Len(worker[w].stack)
         /\ Top(worker'[w]).retry_count > Top(worker[w]).retry_count
    \/ \E w \in Stage2Workers :
         /\ worker2[w].pc = "classify" /\ worker2'[w].pc = "classify"
         /\ worker2'[w].frame.retry_count > worker2[w].frame.retry_count

\* The step changes the batch size a stage-1 worker asks for.
Resized ==
    \E w \in Workers : worker'[w].current_batch_size # worker[w].current_batch_size

\* C31: every batch a stage-1 or a stage-2 worker has processed, with or
\* without success, and every page the migration has copied adds one
\* sample to the metrics collector, and every retry and every change of
\* the requested batch size changes what the collector holds.
C31_EveryBatchObserved ==
    [][ /\ (Stage1BatchEnds \/ Stage2BatchEnds) => Len(recorded') = Len(recorded) + 1
        /\ PageCopied => Len(migration_metrics') = Len(migration_metrics) + 1
        /\ (Retried \/ Resized) =>
               <<classification_metrics, migration_metrics, worker_stats>>'
                   # <<classification_metrics, migration_metrics, worker_stats>>
      ]_vars

\* C32: in both stages a batch that is given up after nothing but timeouts,
\* or nothing but overload errors, has been sent again after a wait before:
\* with max_retries of at least 2 it has seen more than one call and at
\* least one backoff sleep.
C32_TransientErrorsRetried ==
    \A w \in AllWorkers : \A i \in 1..Len(ended[w]) :
        LET e == ended[w][i]
        IN (/\ max_retries >= 2
            /\ GivenUp(e)
            /\ OnlyErrors(e, "timeout") \/ OnlyErrors(e, "529")) =>
             /\ e.calls >= 2
             /\ Len(e.waits) >= 1

\* C33: a reset of failed records (the only request of SpecLoop) sets the
\* stage-1 status of exactly the failed records to pending and changes
\* nothing else: no other record, no other field, no worker.  After it no
\* record is failed and every reset record matches the claim filter.
C33_ResetFrame ==
    [][ requests' # requests =>
          /\ DOMAIN products' = DOMAIN products
          /\ \A id \in DOMAIN products :
               IF products[id].status_stage1 = FAILED
               THEN /\ products'[id] = [ products[id] EXCEPT !.status_stage1 = PENDING ]
                    /\ id \in PendingIds'
               ELSE products'[id] = products[id]
          /\ \A id \in DOMAIN products : products'[id].status_stage1 # FAILED
          /\ UNCHANGED <<worker, worker2, migration_vars, metrics_vars>>
      ]_vars

\* A record worker_1 had marked failed is pending again (only a reset puts
\* a record that carries a worker_id back to pending here), while the other
\* record has kept its classified status and its groups.
C33_Witness ==
    /\ requests >= 1
    /\ \E id, other \in DOMAIN products :
         /\ products[id].status_stage1 = PENDING
         /\ products[id].worker_id = "worker_1"
         /\ products[other].status_stage1 = CLASSIFIED
         /\ products[other].okpd_groups # <<>>

\* C34: when an invocation of stage-1 process_batch has ended, no document
\* of its batch is in processing, and it has either raised or returned a
\* result whose classified and none_classified counts add up to the size of
\* the batch.
C34_BatchLeftClean ==
    \A w \in Workers : \A i \in 1..Len(ended[w]) :
        LET e == ended[w][i]
        IN /\ \A id \in Range(e.products) : products[id].status_stage1 # PROCESSING
           /\ \/ e.outcome = "raise"
              \/ /\ e.outcome = "dict"
                 /\ e.classified + e.none_classified = Len(e.products)

(***************************************************************************)
(* SpecAnswered: two stage-1 workers whose classify_batch calls are all    *)
(* answered, on a target that is empty until a migration fills it.  Each   *)
(* worker loop is a while True of its own process, so each gets weak       *)
(* fairness; the migration gets none.                                      *)
(***************************************************************************)
InitAnswered ==
    /\ products = <<>>
    /\ batch_size = 2
    /\ max_retries = 1
    /\ worker = [ w \in Workers |-> NewWorker ]
    /\ worker2 = [ w \in Stage2Workers |-> NoWorker2 ]
    /\ ended = [ w \in AllWorkers |-> <<>> ]
    /\ now = 0
    /\ requests = 0
    /\ source = [ c \in Range(Collections) |->
                     IF c = "goods" THEN <<2, 1>> ELSE IF c = "tools" THEN <<1>> ELSE <<>> ]
    /\ migration_jobs = <<>>
    /\ runs = <<>>
    /\ migration_worker = [ w \in MigrationWorkers |-> NoMigrationWorker ]
    /\ redis_lock = {}
    /\ migration_batch_size = 2
    /\ faults = 0
    /\ NoMetrics

\* A step of the loop of worker w when every call is answered.
AnsweredStep(w) == GetPendingProductsAtomic(w) \/ ClassifyBatchOk(w)

NextAnswered ==
    \/ \E w \in Workers : GetPendingProductsAtomic(w)
    \/ \E w \in Workers : ClassifyBatchOk(w)
    \/ StartMigrationWhenIdle
    \/ \E r \in 1..MaxRuns : MigratePage(r)

SpecAnswered ==
    InitAnswered /\ [][NextAnswered]_vars /\ \A w \in Workers : WF_vars(AnsweredStep(w))

\* C35: with running workers and a service that answers every call, every
\* pending record is eventually classified or none_classified, the records
\* included that are inserted after the workers have found the queue empty.
C35_PendingIsProcessed ==
    \A id \in 1..NumSource :
        (id \in DOMAIN products /\ products[id].status_stage1 = PENDING)
            ~> (/\ id \in DOMAIN products
                /\ products[id].status_stage1 \in {CLASSIFIED, NONE_CLASSIFIED})

\* worker_1 has processed the first two inserted records as one batch: its
\* first claim, of limit 1, had found the queue empty, and the records
\* became pending after that.
C35_Witness ==
    /\ Len(ended["worker_1"]) = 1
    /\ ended["worker_1"][1].products = <<1, 2>>
    /\ ended["worker_1"][1].outcome = "dict"
    /\ \A id \in {1, 2} : products[id].status_stage1 \in {CLASSIFIED, NONE_CLASSIFIED}

\* The number of errors of the given kinds among errors.
CountIn(errors, kinds) == Cardinality({ i \in 1..Len(errors) : errors[i] \in kinds })

C37_SizeWithinCeiling ==
    \A w \in Workers :
        worker[w].pc # "off" =>
            /\ 1 <= worker[w].limit
            /\ worker[w].limit <= batch_size
            /\ 1 <= worker[w].current_batch_size
            /\ worker[w].current_batch_size <= batch_size

\* C38: the migrated_products a job has persisted never decreases from one
\* step to the next, whatever pages, collection ends, errors and resumes
\* occur, and never exceeds the total_products of the job.
C38_ProgressMonotone ==
    [][ \A j \in DOMAIN migration_jobs :
          /\ migration_jobs'[j].migrated_products >= migration_jobs[j].migrated_products
          /\ migration_jobs'[j].migrated_products <= migration_jobs'[j].total_products
      ]_vars

(***************************************************************************)
(* SpecTerminate: a stage-1 worker on a pool large enough for a bisection  *)
(* and a migration that meets store errors.  The worker loop and the copy  *)
(* task are coroutines that run on, so each gets weak fairness; the        *)
(* requests that start a migration get none.                               *)
(***************************************************************************)
InitTerminate ==
    /\ products = [ id \in 1..NumProductsBatch |-> [ NewDocument EXCEPT !.source_id = id ] ]
    /\ batch_size = NumProductsBatch
    /\ max_retries \in {1, 2}
    /\ worker = [ w \in Workers |-> IF w = "worker_1" THEN NewWorker ELSE NoWorker ]
    /\ worker2 = [ w \in Stage2Workers |-> NoWorker2 ]
    /\ ended = [ w \in AllWorkers |-> <<>> ]
    /\ now = 0
    /\ requests = 0
    /\ source = [ c \in Range(Collections) |-> IF c = "tools" THEN <<1>> ELSE <<>> ]
    /\ migration_jobs = <<>>
    /\ runs = <<>>
    /\ migration_worker = [ w \in MigrationWorkers |-> NoMigrationWorker ]
    /\ redis_lock = {}
    /\ migration_batch_size = 1
    /\ faults = 0
    /\ NoMetrics

\* An iteration of the while loop of _migrate_collection in task r.
MigrateStep(r) ==
    MigratePage(r) \/ MigratePageInsertFails(r) \/ MigratePageSourceFails(r)

\* POST /start on a target that has no migration job yet.
StartFirstMigration == migration_jobs = <<>> /\ StartMigrationRequest

NextTerminate ==
    \/ GetPendingProductsAtomic("worker_1")
    \/ ClassifyBatchOk("worker_1")
    \/ ClassifyBatchTimeout("worker_1")
    \/ ClassifyBatchRateLimit("worker_1")
    \/ ClassifyBatchOverloaded("worker_1")
    \/ ClassifyBatchError("worker_1")
    \/ StartFirstMigration
    \/ \E r \in 1..MaxRuns : MigratePage(r)
    \/ \E r \in 1..MaxRuns : MigratePageInsertFails(r)
    \/ \E r \in 1..MaxRuns : MigratePageSourceFails(r)

SpecTerminate ==
    /\ InitTerminate
    /\ [][NextTerminate]_vars
    /\ WF_vars(Stage1Step)
    /\ \A r \in 1..MaxRuns : WF_vars(MigrateStep(r))

\* C39: whatever the calls answer, a process_batch call of the worker loop
\* does not run for ever, bisections included: the worker is back at its
\* claim again and again.  Likewise no copy task stays in a collection for
\* ever, also when reads or inserts of pages fail: again and again every
\* task that was started has left its last collection.
C39_BatchAndCopyTerminate ==
    /\ []<>(worker["worker_1"].pc = "claim")
    /\ []<>(\A r \in DOMAIN runs : runs[r].pc = "done")

\* A bisected batch has ended with both halves answered, and a copy task
\* has finished its job after a store error.
C39_Witness ==
    /\ \E i \in 1..Len(ended["worker_1"]) :
         /\ ended["worker_1"][i].split
         /\ ended["worker_1"][i].role = "top"
         /\ ended["worker_1"][i].outcome = "dict"
    /\ faults >= 1
    /\ \E r \in DOMAIN runs : runs[r].pc = "done"

(***************************************************************************)
(* SpecRecover: a migration the API server starts and may be stopped in,   *)
(* and migration workers started without a job id.  Copy tasks and started *)
(* workers run on (weak fairness); requests and stops get no fairness.     *)
(***************************************************************************)
\* A step of MigrationWorker.start of worker w in automatic mode.
MigrationWorkerStep(w) == CheckAndStartMigration(w) \/ MonitorMigration(w)

NextRecover ==
    \/ StartFirstMigration
    \/ \E r \in 1..MaxRuns : MigratePage(r)
    \/ CrashProcess("api")
    \/ \E w \in MigrationWorkers : CheckAndStartMigration(w)
    \/ \E w \in MigrationWorkers : MonitorMigration(w)
    \/ \E j \in 1..MaxJobs : LockExpires(j)

SpecRecover ==
    /\ InitJobs
    /\ [][NextRecover]_vars
    /\ \A r \in 1..MaxRuns : WF_vars(MigratePage(r))
    /\ \A w \in MigrationWorkers : WF_vars(MigrationWorkerStep(w))

\* A worker holds the lock of the running job j and monitors it while no
\* task is copying for it.
TakenOver(j) ==
    /\ j \in JobsWithStatus("running")
    /\ Drivers(j) = {}
    /\ j \in redis_lock
    /\ \E w \in MigrationWorkers :
         migration_worker[w].pc = "monitor" /\ migration_worker[w].job = j

\* C40: a running job whose copy task has stopped and that a started
\* migration worker has found and locked is eventually completed.
C40_WorkerCompletesJob ==
    \A j \in 1..MaxJobs :
        TakenOver(j) ~> (j \in JobsWithStatus("completed"))

====
